---- MODULE Spec2Model ----
(***************************************************************************)
(* Facility booking page of the PSP Academy application                    *)
(* (src/app/facility-booking/page.tsx, component FacilityBooking).         *)
(*                                                                         *)
(* The model follows the component: its React state (reservations,         *)
(* checkInDate, checkOutDate, selectedFacility, bookedDates, hasConflict), *)
(* the values held by the react-hook-form instance reservationForm, the    *)
(* localStorage entry "psp_reservations", and one action per event         *)
(* handler.  The two effects that derive bookedDates and hasConflict run   *)
(* after every render in which one of their dependencies changed, so each  *)
(* action ends by recomputing them from the new state.                     *)
(*                                                                         *)
(* A Date is an instant, counted in hours since the epoch (UTC).  The      *)
(* calendar hands out local midnights; toISOString renders an instant as   *)
(* a UTC date and a UTC time of day, and parseISO reads that back.         *)
(***************************************************************************)
EXTENDS Integers, Sequences, FiniteSets, TLC

\* ------------------------------------------------------------------ bounds
\* Calendar days a submission may name: 1..MaxDay (all in the future).
MaxDay == 4
\* Largest number of reservations created in one run of Spec.
MaxRes == 2
\* Calendar days the date pickers offer in SpecForm: 1..MaxFormDay.
MaxFormDay == 3
\* Largest number of reservations created in one run of SpecForm.
MaxFormRes == 2
\* Largest collection SpecConflict starts from.
MaxListLen == 1
\* Hours the browser's time zone is behind UTC (local midnight = tz:00 UTC).
TimeZoneOffset == 5
\* Start days a draft of SpecDraft may name: 1..MaxNearDay; its end days lie
\* the duration cap later (cap + 1 .. cap + MaxNearDay) or on day 1.
MaxNearDay == 2

\* -------------------------------------------------------- program constants
HoursPerDay == 24
MaxReservationDays == 180
MinNameLen == 2
MaxNameLen == 100
MinPurposeLen == 10
MaxPurposeLen == 500

\* ------------------------------------------------------------- value space
Undefined == "undefined"
NoDate == 0 - 1

FacilityType ==
    {"dorm", "classroom", "range", "amphitheater", "auditorium", "gym", "pool", "other"}

\* The facility types the runs select, and the units offered for each.
SelectableTypes == {"dorm", "range"}
dormRooms == {"101", "102"}
classrooms == {"CR-1", "CR-2"}

Days == 1..MaxDay
FormDays == 1..MaxFormDay

\* JavaScript truthiness of an optional string.
Truthy(s) == s # Undefined /\ s # ""

\* Field access on an object: a missing key reads as undefined.
Get(r, k) == IF k \in DOMAIN r THEN r[k] ELSE Undefined

\* --------------------------------------------------------------- date-fns
\* The Date the calendar reports for a clicked day: local midnight.
LocalMidnight(day) == day * HoursPerDay + TimeZoneOffset

\* Date.prototype.toISOString: <<UTC date, UTC hour>>.
toISOString(d) == <<d \div HoursPerDay, d % HoursPerDay>>

\* parseISO of a string written by toISOString.
parseISO(s) == s[1] * HoursPerDay + s[2]

\* Date.prototype.toDateString: the local calendar day of an instant.
toDateString(d) == (d - TimeZoneOffset) \div HoursPerDay

addDays(d, n) == d + n * HoursPerDay

\* Number of full days from earlier to later (truncated towards zero).
differenceInDays(later, earlier) ==
    IF later >= earlier
    THEN (later - earlier) \div HoursPerDay
    ELSE 0 - ((earlier - later) \div HoursPerDay)

\* ------------------------------------------------------------------ texts
\* The strings the runs type into the text inputs, with their lengths.
Length(s) ==
    CASE s = "" -> 0
      [] s = "J" -> 1
      [] s = "John Doe" -> 8
      [] s = "Jane Smith" -> 10
      [] s = "Training" -> 8
      [] s = "Training session" -> 16
      [] s = "john.doe@example.com" -> 20
      [] s = "jane.smith@psp.gov" -> 18
      [] s = "not-an-email" -> 12
      [] OTHER -> 0

\* z.string().email(): the address pattern.
IsEmail(s) == s \in {"john.doe@example.com", "jane.smith@psp.gov"}

\* ------------------------------------------------------------------- state
VARIABLES
    reservations,      \* useState<Reservation[]>: the in-memory collection
    storage,           \* localStorage["psp_reservations"]: <<>> (no entry) or <<json>>
    form,              \* values held by reservationForm
    errors,            \* reservationForm.formState.errors (messages)
    checkInDate,       \* useState<Date>: NoDate when undefined
    checkOutDate,      \* useState<Date>: NoDate when undefined
    selectedFacility,  \* useState: <<>> (null) or <<[type, number]>>
    bookedDates,       \* useState<Date[]>
    hasConflict,       \* useState(false)
    now,               \* Date.now() at the latest creation
    toast,             \* the latest toast shown ("none" before the first)
    others,            \* the other open tabs of the booking page: each one's component state
    \* src/app/profiles/page.tsx, the scheduling component
    scheduledClasses,          \* useState<ScheduledClass[]>
    scheduledStorage,          \* localStorage["scheduled-classes"]: <<>> or <<list>>
    selectedParticipants,      \* useState<string[]>
    currentScheduledClassId,   \* useState<string | null>: <<>> or <<id>>
    editingScheduledClassId,   \* useState<string | null>: <<>> or <<id>>
    isParticipantDialogOpen,   \* useState(false)
    errorsSchedule,            \* formState.errors of the schedule form
    scheduleToast,             \* the latest toast of the scheduling component
    \* src/app/user-administration/page.tsx
    roles,                     \* useState<Role[]>
    adminRoles,                \* localStorage["adminRoles"]: <<>> or <<list>>
    editingRole,               \* useState<Role | null>: <<>> or <<id>>
    rolePermissions,           \* useState<Role["permissions"]>: module -> object reference
    heap,                      \* the per-module objects the permission maps refer to
    isRoleDialogOpen,          \* useState(false)
    newRoleName,               \* useState("")
    adminToast                 \* the latest toast of the administration page

bookingVars == <<reservations, storage, form, errors, checkInDate, checkOutDate,
                 selectedFacility, bookedDates, hasConflict, toast>>

profilesVars == <<scheduledClasses, scheduledStorage, selectedParticipants,
                  currentScheduledClassId, editingScheduledClassId,
                  isParticipantDialogOpen, errorsSchedule, scheduleToast>>

adminVars == <<roles, adminRoles, editingRole, rolePermissions, heap,
               isRoleDialogOpen, newRoleName, adminToast>>

vars == <<bookingVars, now, others, profilesVars, adminVars>>

\* The state of lines 539-551 of src/app/profiles/page.tsx as constructed.
ProfilesConstructed ==
    /\ scheduledClasses = <<>>
    /\ scheduledStorage = <<>>
    /\ selectedParticipants = <<>>
    /\ currentScheduledClassId = <<>>
    /\ editingScheduledClassId = <<>>
    /\ isParticipantDialogOpen = FALSE
    /\ errorsSchedule = {}
    /\ scheduleToast = "none"

\* The objects a session of the administration page keeps alive at most.
MaxObjects == 5

\* The object {} and the array [].
EmptyObject == [k \in {} |-> <<>>]

\* No object allocated yet.
EmptyHeap == [r \in 1..MaxObjects |-> EmptyObject]

\* The state of lines 101-111 of src/app/user-administration/page.tsx as constructed.
AdminConstructed ==
    /\ roles = <<>>
    /\ adminRoles = <<>>
    /\ editingRole = <<>>
    /\ rolePermissions = EmptyObject
    /\ heap = EmptyHeap
    /\ isRoleDialogOpen = FALSE
    /\ newRoleName = ""
    /\ adminToast = "none"

\* The booking page open in one tab only, the other pages never opened.
OneBookingTab == others = <<>> /\ ProfilesConstructed /\ AdminConstructed

\* What a handler of the booking page leaves alone: the other tabs and pages.
Elsewhere == UNCHANGED <<others, profilesVars, adminVars>>

\* ----------------------------------------------------------- JSON storage
\* JSON.stringify of one object: keys whose value is undefined are dropped.
OptionalKeys == {"facilityNumber", "specialRequests"}

\* Mutant: a serialisation that also drops the keys holding an empty string.
StringifyObject_DropsEmpty(r) ==
    [k \in {f \in DOMAIN r : ~(f \in OptionalKeys /\ r[f] \in {Undefined, ""})} |-> r[k]]

StringifyObject(r) ==
    [k \in {f \in DOMAIN r : ~(f \in OptionalKeys /\ r[f] = Undefined)} |-> r[k]]

\* JSON.stringify(updatedReservations)
JSONStringify(list) == [i \in 1..Len(list) |-> StringifyObject(list[i])]

\* JSON.parse(storedReservations)
JSONParse(json) == json

\* ------------------------------------------------------ reservationSchema
\* One issue, raised when the check it belongs to fails.
Issue(failed, message) == IF failed THEN {message} ELSE {}

\* z.string().min(2).max(100).optional()
NameIssue(field, s) ==
    Issue(s # Undefined /\ (Length(s) < MinNameLen \/ Length(s) > MaxNameLen),
          <<field, "Name must be at least 2 characters">>)

\* z.string().email().optional()
EmailIssue(field, s) ==
    Issue(s # Undefined /\ ~IsEmail(s), <<field, "Invalid email address">>)

\* Issues of the z.object fields (lines 66-75).
FieldIssues(data) ==
    Issue(data.facilityType \notin FacilityType, <<"facilityType", "Invalid enum value">>)
    \cup NameIssue("guestName", data.guestName)
    \cup EmailIssue("guestEmail", data.guestEmail)
    \cup NameIssue("instructorName", data.instructorName)
    \cup EmailIssue("instructorEmail", data.instructorEmail)
    \cup Issue(data.checkIn = NoDate, <<"checkIn", "Start date is required">>)
    \cup Issue(data.checkOut = NoDate, <<"checkOut", "End date is required">>)
    \cup Issue(data.purpose = Undefined \/ Length(data.purpose) < MinPurposeLen
                 \/ Length(data.purpose) > MaxPurposeLen,
               <<"purpose", "Purpose must be at least 10 characters">>)
    \cup Issue(data.specialRequests # Undefined
                 /\ Length(data.specialRequests) > MaxPurposeLen,
               <<"specialRequests", "String must contain at most 500 characters">>)

\* First refinement (lines 76-85): the contact pair selected by the type.
ContactPresent(data) ==
    IF data.facilityType = "dorm"
    THEN Truthy(data.guestName) /\ Truthy(data.guestEmail)
    ELSE Truthy(data.instructorName) /\ Truthy(data.instructorEmail)

\* Second refinement (lines 86-88).
DateOrderOk(data) == data.checkOut > data.checkIn

\* Mutant: the third refinement with the boundary excluded.
DurationOk_Exclusive(data) ==
    differenceInDays(data.checkOut, data.checkIn) < MaxReservationDays

\* Mutant: the third refinement accepting any duration.
DurationOk_NoCap(data) == TRUE

\* Third refinement (lines 89-95).
DurationOk(data) == differenceInDays(data.checkOut, data.checkIn) <= MaxReservationDays

\* The refinements run unless a field failed its type check (a missing date,
\* a missing purpose, a type outside the enum), which aborts the object.
RefinementIssues(data) ==
    IF data.checkIn = NoDate \/ data.checkOut = NoDate \/ data.purpose = Undefined
       \/ data.facilityType \notin FacilityType
    THEN {}
    ELSE Issue(~ContactPresent(data),
               <<"guestName", "Required contact information is missing">>)
         \cup Issue(~DateOrderOk(data), <<"checkOut", "End date must be after start date">>)
         \cup Issue(~DurationOk(data), <<"checkOut", "Reservation cannot exceed 6 months">>)

\* zodResolver(reservationSchema): the messages reported for data.
SchemaIssues(data) == FieldIssues(data) \cup RefinementIssues(data)

\* ------------------------------------------------------ conflict engine
\* Mutant: the filter without the status test.
FacilityMatch_AnyStatus(r, facilityType, facilityNumber) ==
    /\ r.facilityType = facilityType
    /\ (~Truthy(facilityNumber) \/ Get(r, "facilityNumber") = facilityNumber)

\* Mutant: the filter without the unit test.
FacilityMatch_AnyUnit(r, facilityType, facilityNumber) ==
    /\ r.status = "active"
    /\ r.facilityType = facilityType

\* Mutant: the filter comparing the unit even when the candidate has none.
FacilityMatch_ExactUnit(r, facilityType, facilityNumber) ==
    /\ r.status = "active"
    /\ r.facilityType = facilityType
    /\ Get(r, "facilityNumber") = facilityNumber

\* The filter shared by getBookedDatesForFacility and checkForConflicts.
FacilityMatch(r, facilityType, facilityNumber) ==
    /\ r.status = "active"
    /\ r.facilityType = facilityType
    /\ (~Truthy(facilityNumber) \/ Get(r, "facilityNumber") = facilityNumber)

\* Mutant: the loop stopping before the end day (currentDate < end).
ExpandDays_ExclusiveEnd(start, end) ==
    LET iterations == IF start < end THEN (end - start + HoursPerDay - 1) \div HoursPerDay
                      ELSE 0
    IN  [k \in 1..iterations |-> addDays(start, k - 1)]

\* Mutant: the loop stepping currentDate before it pushes it (the start day
\* is left out).
ExpandDays_SkipsStart(start, end) ==
    LET iterations == IF start < end THEN (end - start) \div HoursPerDay ELSE 0
    IN  [k \in 1..iterations |-> addDays(start, k)]

\* The while loop of lines 224-228: it pushes currentDate and steps it by one
\* day for as long as currentDate <= end, that is once for every whole day
\* that fits between start and end, both ends included.
ExpandDays(start, end) ==
    LET iterations == IF start <= end THEN (end - start) \div HoursPerDay + 1 ELSE 0
    IN  [k \in 1..iterations |-> addDays(start, k - 1)]

RECURSIVE BookedFrom(_, _, _, _)
BookedFrom(list, i, facilityType, facilityNumber) ==
    IF i > Len(list) THEN <<>>
    ELSE (IF FacilityMatch(list[i], facilityType, facilityNumber)
          THEN ExpandDays(parseISO(list[i].checkIn), parseISO(list[i].checkOut))
          ELSE <<>>)
         \o BookedFrom(list, i + 1, facilityType, facilityNumber)

getBookedDatesForFacility(list, facilityType, facilityNumber) ==
    BookedFrom(list, 1, facilityType, facilityNumber)

\* Mutant: the overlap test without its third case (the candidate containing
\* the existing range).
DatesOverlap_NoContainment(checkIn, checkOut, existingStart, existingEnd) ==
    \/ (checkIn >= existingStart /\ checkIn <= existingEnd)
    \/ (checkOut >= existingStart /\ checkOut <= existingEnd)

\* Mutant: the overlap test on half-open ranges (a shared end day is free).
DatesOverlap_HalfOpen(checkIn, checkOut, existingStart, existingEnd) ==
    \/ (checkIn >= existingStart /\ checkIn < existingEnd)
    \/ (checkOut > existingStart /\ checkOut <= existingEnd)
    \/ (checkIn <= existingStart /\ checkOut >= existingEnd)

\* The overlap test of lines 248-252.
DatesOverlap(checkIn, checkOut, existingStart, existingEnd) ==
    \/ (checkIn >= existingStart /\ checkIn <= existingEnd)
    \/ (checkOut >= existingStart /\ checkOut <= existingEnd)
    \/ (checkIn <= existingStart /\ checkOut >= existingEnd)

checkForConflicts(list, facilityType, facilityNumber, checkIn, checkOut) ==
    \E i \in 1..Len(list) :
        /\ FacilityMatch(list[i], facilityType, facilityNumber)
        /\ DatesOverlap(checkIn, checkOut,
                        parseISO(list[i].checkIn), parseISO(list[i].checkOut))

\* ------------------------------------------------------------ form layer
\* useForm defaultValues (lines 154-163) for the fields the pickers set.
defaultValues ==
    [facilityType |-> "dorm", facilityNumber |-> Undefined,
     checkIn |-> NoDate, checkOut |-> NoDate]

\* What the runs type into the registered text inputs before a submit.
TypedTexts ==
    {[guestName |-> "John Doe", guestEmail |-> "john.doe@example.com",
      instructorName |-> "Jane Smith", instructorEmail |-> "jane.smith@psp.gov",
      purpose |-> p, specialRequests |-> ""] : p \in {"Training session", "Training"}}

\* The data handleSubmit passes to the resolver: all form values.
FormData(texts) ==
    [facilityType |-> form.facilityType, facilityNumber |-> form.facilityNumber,
     guestName |-> texts.guestName, guestEmail |-> texts.guestEmail,
     instructorName |-> texts.instructorName, instructorEmail |-> texts.instructorEmail,
     checkIn |-> form.checkIn, checkOut |-> form.checkOut,
     purpose |-> texts.purpose, specialRequests |-> texts.specialRequests]

NumberedTypes == {"dorm", "classroom"}

UnitsOf(facilityType) ==
    CASE facilityType = "dorm" -> dormRooms
      [] facilityType = "classroom" -> classrooms
      [] OTHER -> {}

\* The calendars' disabled test on bookedDates (lines 675-680, 714-719).
IsBooked(date) ==
    \E i \in 1..Len(bookedDates) : toDateString(bookedDates[i]) = toDateString(date)

\* The Start Date button is enabled (line 661).
StartDateEnabled ==
    /\ selectedFacility # <<>>
    /\ ~(selectedFacility[1].type \in NumberedTypes /\ ~Truthy(form.facilityNumber))

\* Mutant: the conflict flag left as it was when the inputs change.
Effects_StaleFlag ==
    /\ bookedDates' =
         IF selectedFacility' # <<>>
         THEN getBookedDatesForFacility(reservations', selectedFacility'[1].type,
                                        selectedFacility'[1].number)
         ELSE <<>>
    /\ hasConflict' = hasConflict

\* The two effects of lines 256-277, run on the state an action produces.
Effects ==
    /\ bookedDates' =
         IF selectedFacility' # <<>>
         THEN getBookedDatesForFacility(reservations', selectedFacility'[1].type,
                                        selectedFacility'[1].number)
         ELSE <<>>
    /\ hasConflict' =
         IF checkInDate' # NoDate /\ checkOutDate' # NoDate /\ selectedFacility' # <<>>
         THEN checkForConflicts(reservations', selectedFacility'[1].type,
                                selectedFacility'[1].number, checkInDate', checkOutDate')
         ELSE FALSE

\* ---------------------------------------------------------------- actions
Init ==
    /\ reservations = <<>>
    /\ storage = <<>>
    /\ form = defaultValues
    /\ errors = {}
    /\ checkInDate = NoDate
    /\ checkOutDate = NoDate
    /\ selectedFacility = <<>>
    /\ bookedDates = <<>>
    /\ hasConflict = FALSE
    /\ now = 0
    /\ toast = "none"
    /\ OneBookingTab

\* Facility Type select, onValueChange (lines 499-505).
SelectFacilityType(value) ==
    /\ form' = [form EXCEPT !.facilityType = value, !.facilityNumber = Undefined]
    /\ selectedFacility' = <<[type |-> value, number |-> Undefined]>>
    /\ checkInDate' = NoDate
    /\ checkOutDate' = NoDate
    /\ UNCHANGED <<reservations, storage, errors, now, toast>>
    /\ Effects

\* Dorm Room Number / Classroom select, onValueChange (lines 533-538, 557-562).
SelectFacilityNumber(value) ==
    /\ form.facilityType \in NumberedTypes
    /\ value \in UnitsOf(form.facilityType)
    /\ form' = [form EXCEPT !.facilityNumber = value]
    /\ selectedFacility' = <<[type |-> form.facilityType, number |-> value]>>
    /\ checkInDate' = NoDate
    /\ checkOutDate' = NoDate
    /\ UNCHANGED <<reservations, storage, errors, now, toast>>
    /\ Effects

\* Start Date calendar, onSelect with a day (lines 671-674).
PickCheckIn(day) ==
    LET date == LocalMidnight(day) IN
    /\ StartDateEnabled
    /\ ~IsBooked(date)
    /\ checkInDate' = date
    /\ form' = [form EXCEPT !.checkIn = date]
    /\ UNCHANGED <<reservations, storage, errors, checkOutDate, selectedFacility,
                   now, toast>>
    /\ Effects

\* Start Date calendar, onSelect(undefined): the selected day clicked again.
ClearCheckIn ==
    /\ StartDateEnabled
    /\ checkInDate # NoDate
    /\ ~IsBooked(checkInDate)
    /\ checkInDate' = NoDate
    /\ UNCHANGED <<reservations, storage, form, errors, checkOutDate, selectedFacility,
                   now, toast>>
    /\ Effects

\* End Date calendar, onSelect with a day (lines 710-713).
PickCheckOut(day) ==
    LET date == LocalMidnight(day) IN
    /\ checkInDate # NoDate
    /\ date > checkInDate
    /\ ~IsBooked(date)
    /\ checkOutDate' = date
    /\ form' = [form EXCEPT !.checkOut = date]
    /\ UNCHANGED <<reservations, storage, errors, checkInDate, selectedFacility,
                   now, toast>>
    /\ Effects

\* End Date calendar, onSelect(undefined): the selected day clicked again.
ClearCheckOut ==
    /\ checkInDate # NoDate
    /\ checkOutDate # NoDate
    /\ checkOutDate > checkInDate
    /\ ~IsBooked(checkOutDate)
    /\ checkOutDate' = NoDate
    /\ UNCHANGED <<reservations, storage, form, errors, checkInDate, selectedFacility,
                   now, toast>>
    /\ Effects

\* Mutant: the record built with an id that does not depend on the clock.
NewReservation_FixedId(data, time) ==
    [id |-> 1,
     facilityType |-> data.facilityType,
     facilityNumber |-> data.facilityNumber,
     purpose |-> data.purpose,
     specialRequests |-> data.specialRequests,
     guestName |-> IF data.facilityType = "dorm" THEN data.guestName
                   ELSE data.instructorName,
     guestEmail |-> IF data.facilityType = "dorm" THEN data.guestEmail
                    ELSE data.instructorEmail,
     checkIn |-> toISOString(data.checkIn),
     checkOut |-> toISOString(data.checkOut),
     status |-> "active",
     createdAt |-> time,
     needsCleaning |-> FALSE]

\* The record built at lines 297-307, with the fields of interface Reservation
\* (lines 49-62); Date.now() gives the id and the creation stamp.
NewReservation(data, time) ==
    [id |-> time,
     facilityType |-> data.facilityType,
     facilityNumber |-> data.facilityNumber,
     purpose |-> data.purpose,
     specialRequests |-> data.specialRequests,
     guestName |-> IF data.facilityType = "dorm" THEN data.guestName
                   ELSE data.instructorName,
     guestEmail |-> IF data.facilityType = "dorm" THEN data.guestEmail
                    ELSE data.instructorEmail,
     checkIn |-> toISOString(data.checkIn),
     checkOut |-> toISOString(data.checkOut),
     status |-> "active",
     createdAt |-> time,
     needsCleaning |-> FALSE]

\* Mutant: the handler trusting the hasConflict state computed by the effect
\* instead of checking the submitted data against the collection.
onReservationSubmit_TrustsFlag(data) ==
    IF hasConflict
    THEN /\ toast' = "This facility is already booked for the selected dates."
         /\ UNCHANGED <<reservations, storage, form, checkInDate, checkOutDate,
                        selectedFacility, bookedDates, hasConflict, now>>
    ELSE /\ now' = now + 1
         /\ reservations' = Append(reservations, NewReservation(data, now'))
         /\ storage' = <<JSONStringify(reservations')>>
         /\ toast' = "Reservation created successfully!"
         /\ form' = defaultValues
         /\ checkInDate' = NoDate
         /\ checkOutDate' = NoDate
         /\ selectedFacility' = <<>>
         /\ Effects

\* Mutant: the handler persisting the collection it read, not the updated one.
onReservationSubmit_SavesOld(data) ==
    IF checkForConflicts(reservations, data.facilityType, data.facilityNumber,
                         data.checkIn, data.checkOut)
    THEN /\ toast' = "This facility is already booked for the selected dates."
         /\ UNCHANGED <<reservations, storage, form, checkInDate, checkOutDate,
                        selectedFacility, bookedDates, hasConflict, now>>
    ELSE /\ now' = now + 1
         /\ reservations' = Append(reservations, NewReservation(data, now'))
         /\ storage' = <<JSONStringify(reservations)>>
         /\ toast' = "Reservation created successfully!"
         /\ form' = defaultValues
         /\ checkInDate' = NoDate
         /\ checkOutDate' = NoDate
         /\ selectedFacility' = <<>>
         /\ Effects

\* Mutant: the conflict test run on the stored collection, not the in-memory one.
onReservationSubmit_ChecksStore(data) ==
    IF checkForConflicts(IF storage = <<>> THEN <<>> ELSE JSONParse(storage[1]),
                         data.facilityType, data.facilityNumber,
                         data.checkIn, data.checkOut)
    THEN /\ toast' = "This facility is already booked for the selected dates."
         /\ UNCHANGED <<reservations, storage, form, checkInDate, checkOutDate,
                        selectedFacility, bookedDates, hasConflict, now>>
    ELSE /\ now' = now + 1
         /\ reservations' = Append(reservations, NewReservation(data, now'))
         /\ storage' = <<JSONStringify(reservations')>>
         /\ toast' = "Reservation created successfully!"
         /\ form' = defaultValues
         /\ checkInDate' = NoDate
         /\ checkOutDate' = NoDate
         /\ selectedFacility' = <<>>
         /\ Effects

\* Mutant: the new record appended to the stored collection instead of
\* replacing it with the in-memory one.
onReservationSubmit_Merges(data) ==
    IF checkForConflicts(reservations, data.facilityType, data.facilityNumber,
                         data.checkIn, data.checkOut)
    THEN /\ toast' = "This facility is already booked for the selected dates."
         /\ UNCHANGED <<reservations, storage, form, checkInDate, checkOutDate,
                        selectedFacility, bookedDates, hasConflict, now>>
    ELSE /\ now' = now + 1
         /\ reservations' = Append(reservations, NewReservation(data, now'))
         /\ storage' = <<JSONStringify(
                           Append(IF storage = <<>> THEN <<>> ELSE JSONParse(storage[1]),
                                  NewReservation(data, now')))>>
         /\ toast' = "Reservation created successfully!"
         /\ form' = defaultValues
         /\ checkInDate' = NoDate
         /\ checkOutDate' = NoDate
         /\ selectedFacility' = <<>>
         /\ Effects

\* onReservationSubmit (lines 281-318), called with validated data.
onReservationSubmit(data) ==
    IF checkForConflicts(reservations, data.facilityType, data.facilityNumber,
                         data.checkIn, data.checkOut)
    THEN /\ toast' = "This facility is already booked for the selected dates."
         /\ UNCHANGED <<reservations, storage, form, checkInDate, checkOutDate,
                        selectedFacility, bookedDates, hasConflict, now>>
    ELSE /\ now' = now + 1
         /\ reservations' = Append(reservations, NewReservation(data, now'))
         /\ storage' = <<JSONStringify(reservations')>>
         /\ toast' = "Reservation created successfully!"
         /\ form' = defaultValues
         /\ checkInDate' = NoDate
         /\ checkOutDate' = NoDate
         /\ selectedFacility' = <<>>
         /\ Effects

\* Mutant: the conflict test run on the raw form values before the resolver.
handleSubmit_ConflictFirst(data) ==
    IF checkForConflicts(reservations, data.facilityType, data.facilityNumber,
                         data.checkIn, data.checkOut)
    THEN /\ toast' = "This facility is already booked for the selected dates."
         /\ UNCHANGED <<reservations, storage, form, errors, checkInDate, checkOutDate,
                        selectedFacility, bookedDates, hasConflict, now>>
    ELSE /\ errors' = SchemaIssues(data)
         /\ IF errors' # {}
            THEN UNCHANGED <<reservations, storage, form, checkInDate, checkOutDate,
                             selectedFacility, bookedDates, hasConflict, now, toast>>
            ELSE onReservationSubmit(data)

\* reservationForm.handleSubmit(onReservationSubmit) (line 493): the resolver
\* runs first, and the handler is called only when it reports no issue.
handleSubmit(data) ==
    /\ errors' = SchemaIssues(data)
    /\ IF errors' # {}
       THEN UNCHANGED <<reservations, storage, form, checkInDate, checkOutDate,
                        selectedFacility, bookedDates, hasConflict, now, toast>>
       ELSE onReservationSubmit(data)

\* The Create Reservation button, disabled while hasConflict (line 771).
Submit(texts) ==
    /\ ~hasConflict
    /\ handleSubmit(FormData(texts))

\* Mutant: cancellation that sets the status and leaves the cleaning flag alone.
cancelReservation_KeepsFlag(id) ==
    /\ reservations' =
         [i \in 1..Len(reservations) |->
            IF reservations[i].id = id
            THEN [reservations[i] EXCEPT !.status = "cancelled"]
            ELSE reservations[i]]
    /\ storage' = <<JSONStringify(reservations')>>
    /\ toast' = "Reservation cancelled"
    /\ UNCHANGED <<form, errors, checkInDate, checkOutDate, selectedFacility, now>>
    /\ Effects

\* Mutant: cancellation working on the collection as it was before the latest
\* record was appended (a copy captured before the last creation).
cancelReservation_StaleCopy(id) ==
    /\ reservations' =
         [i \in 1..(Len(reservations) - 1) |->
            IF reservations[i].id = id
            THEN [reservations[i] EXCEPT !.status = "cancelled",
                                         !.needsCleaning = (reservations[i].status = "active")]
            ELSE reservations[i]]
    /\ storage' = <<JSONStringify(reservations')>>
    /\ toast' = "Reservation cancelled"
    /\ UNCHANGED <<form, errors, checkInDate, checkOutDate, selectedFacility, now>>
    /\ Effects

\* Mutant: cancellation removing the record from the collection.
cancelReservation_Removes(id) ==
    /\ reservations' = SelectSeq(reservations, LAMBDA r : r.id # id)
    /\ storage' = <<JSONStringify(reservations')>>
    /\ toast' = "Reservation cancelled"
    /\ UNCHANGED <<form, errors, checkInDate, checkOutDate, selectedFacility, now>>
    /\ Effects

\* cancelReservation (lines 332-341).
cancelReservation(id) ==
    /\ reservations' =
         [i \in 1..Len(reservations) |->
            IF reservations[i].id = id
            THEN [reservations[i] EXCEPT !.status = "cancelled",
                                         !.needsCleaning = (reservations[i].status = "active")]
            ELSE reservations[i]]
    /\ storage' = <<JSONStringify(reservations')>>
    /\ toast' = "Reservation cancelled"
    /\ UNCHANGED <<form, errors, checkInDate, checkOutDate, selectedFacility, now>>
    /\ Effects

\* Mutant: the cleaning mark putting the reservation back to active.
markForCleaning_Reactivates(id) ==
    /\ reservations' =
         [i \in 1..Len(reservations) |->
            IF reservations[i].id = id
            THEN [reservations[i] EXCEPT !.needsCleaning = TRUE, !.status = "active"]
            ELSE reservations[i]]
    /\ storage' = <<JSONStringify(reservations')>>
    /\ toast' = "Room marked for cleaning"
    /\ UNCHANGED <<form, errors, checkInDate, checkOutDate, selectedFacility, now>>
    /\ Effects

\* Mutant: the cleaning mark flipping the flag instead of setting it.
markForCleaning_Toggles(id) ==
    /\ reservations' =
         [i \in 1..Len(reservations) |->
            IF reservations[i].id = id
            THEN [reservations[i] EXCEPT !.needsCleaning = ~reservations[i].needsCleaning]
            ELSE reservations[i]]
    /\ storage' = <<JSONStringify(reservations')>>
    /\ toast' = "Room marked for cleaning"
    /\ UNCHANGED <<form, errors, checkInDate, checkOutDate, selectedFacility, now>>
    /\ Effects

\* markForCleaning (lines 344-353).
markForCleaning(id) ==
    /\ reservations' =
         [i \in 1..Len(reservations) |->
            IF reservations[i].id = id
            THEN [reservations[i] EXCEPT !.needsCleaning = TRUE]
            ELSE reservations[i]]
    /\ storage' = <<JSONStringify(reservations')>>
    /\ toast' = "Room marked for cleaning"
    /\ UNCHANGED <<form, errors, checkInDate, checkOutDate, selectedFacility, now>>
    /\ Effects

\* The ids a run passes to cancelReservation and markForCleaning.
Ids == 1..MaxRes

\* ------------------------------------------------- form-level specification
\* Every interaction with the booking form, from a fresh mount on an empty store.
NextForm ==
    \/ \E value \in SelectableTypes : SelectFacilityType(value) /\ Elsewhere
    \/ \E value \in dormRooms \cup classrooms : SelectFacilityNumber(value) /\ Elsewhere
    \/ \E day \in FormDays : PickCheckIn(day) /\ Elsewhere
    \/ ClearCheckIn /\ Elsewhere
    \/ \E day \in FormDays : PickCheckOut(day) /\ Elsewhere
    \/ ClearCheckOut /\ Elsewhere
    \/ \E texts \in TypedTexts :
         Submit(texts) /\ Len(reservations') <= MaxFormRes /\ Elsewhere

SpecForm == Init /\ [][NextForm]_vars

\* ---------------------------------------------- one-submission specification
\* Every collection a store can hold (records as onReservationSubmit and
\* cancelReservation leave them) against every candidate the form can hold,
\* the facility just selected and the dates still in the form from before.
StoredRecord(k, ty, nu, ci, co, st) ==
    [id |-> k, facilityType |-> ty, facilityNumber |-> nu,
     purpose |-> "Training session", specialRequests |-> "",
     guestName |-> "John Doe", guestEmail |-> "john.doe@example.com",
     checkIn |-> toISOString(LocalMidnight(ci)),
     checkOut |-> toISOString(LocalMidnight(co)),
     status |-> st, createdAt |-> k, needsCleaning |-> (st = "cancelled")]

StoredRecords(k) ==
    {StoredRecord(k, ty, nu, ci, co, st) :
        ty \in SelectableTypes, nu \in dormRooms \cup {Undefined},
        ci \in Days, co \in Days, st \in {"active", "cancelled"}}

ValidStored(r) ==
    /\ r.facilityNumber \in UnitsOf(r.facilityType) \cup {Undefined}
    /\ parseISO(r.checkIn) < parseISO(r.checkOut)

RECURSIVE StoredLists(_)
StoredLists(n) ==
    IF n = 0 THEN {<<>>}
    ELSE StoredLists(n - 1) \cup
         {Append(l, r) : l \in {x \in StoredLists(n - 1) : Len(x) = n - 1},
                         r \in {x \in StoredRecords(n) : ValidStored(x)}}

InitConflict ==
    /\ reservations \in StoredLists(MaxListLen)
    /\ storage = <<JSONStringify(reservations)>>
    /\ now = Len(reservations)
    /\ \E ty \in SelectableTypes : \E nu \in UnitsOf(ty) \cup {Undefined} :
         \E ci \in Days : \E co \in Days :
           /\ form = [facilityType |-> ty, facilityNumber |-> nu,
                      checkIn |-> LocalMidnight(ci), checkOut |-> LocalMidnight(co)]
           /\ selectedFacility = <<[type |-> ty, number |-> nu]>>
    /\ checkInDate = NoDate
    /\ checkOutDate = NoDate
    /\ bookedDates = getBookedDatesForFacility(reservations, selectedFacility[1].type,
                                               selectedFacility[1].number)
    /\ hasConflict = FALSE
    /\ errors = {}
    /\ toast = "none"
    /\ OneBookingTab

NextConflict == \E texts \in TypedTexts : Submit(texts) /\ Elsewhere

SpecConflict == InitConflict /\ [][NextConflict]_vars

\* ------------------------------------------------- draft-level specification
\* The mount effect (lines 119-131) on a freshly constructed component: the
\* state of lines 102-116 and the form defaults, then the stored collection
\* if the entry exists.
Mount ==
    /\ reservations' = IF storage = <<>> THEN <<>> ELSE JSONParse(storage[1])
    /\ form' = defaultValues
    /\ errors' = {}
    /\ checkInDate' = NoDate
    /\ checkOutDate' = NoDate
    /\ selectedFacility' = <<>>
    /\ toast' = "none"
    /\ UNCHANGED <<storage, now>>
    /\ Effects

\* The drafts the form can hold around the duration cap: a dorm or a
\* classroom, a unit or none, a start on one of the first days and an end on
\* the first day or around MaxReservationDays later.
DraftTypes == {"dorm", "classroom"}
DraftUnits(facilityType) ==
    IF facilityType = "dorm" THEN {"101", Undefined} ELSE {"CR-1", Undefined}
DraftCheckIns == 1..MaxNearDay
DraftCheckOuts == {1} \cup {MaxReservationDays + d : d \in 1..MaxNearDay}

\* What the text inputs hold at a submit: every input starts as "" (lines
\* 156-161) and keeps what was typed while its block is not rendered.  The
\* runs leave at most one input of a contact pair, or one whole pair, empty.
Texts(gn, ge, iname, ie, p) ==
    [guestName |-> gn, guestEmail |-> ge, instructorName |-> iname,
     instructorEmail |-> ie, purpose |-> p, specialRequests |-> ""]

DraftTexts ==
    {Texts("John Doe", "john.doe@example.com", "Jane Smith", "jane.smith@psp.gov", p) :
        p \in {"Training", "Training session"}}
    \cup {Texts("John Doe", "", "Jane Smith", "jane.smith@psp.gov", "Training session"),
          Texts("", "john.doe@example.com", "Jane Smith", "jane.smith@psp.gov",
                "Training session"),
          Texts("", "", "Jane Smith", "jane.smith@psp.gov", "Training session"),
          Texts("John Doe", "john.doe@example.com", "", "", "Training session")}

\* The collections the store can hold when the page is opened: nothing, or
\* one record as onReservationSubmit leaves it.
DraftStoredLists ==
    {<<>>} \cup
    {<<StoredRecord(1, ty, nu, ci, co, "active")>> :
        ty \in DraftTypes, nu \in {"101", "CR-1", Undefined},
        ci \in DraftCheckIns, co \in DraftCheckOuts \ {1}}

\* A stored record was accepted by an earlier submission: a unit of its type
\* or none, and dates in order and no more than the cap apart.
ValidDraftStored(list) ==
    \A i \in 1..Len(list) :
        /\ list[i].facilityNumber \in DraftUnits(list[i].facilityType)
        /\ parseISO(list[i].checkOut) > parseISO(list[i].checkIn)
        /\ parseISO(list[i].checkOut) - parseISO(list[i].checkIn)
             <= MaxReservationDays * HoursPerDay

InitDraft ==
    /\ reservations \in {l \in DraftStoredLists : ValidDraftStored(l)}
    /\ storage \in {<<JSONStringify(reservations)>>}
                     \cup (IF reservations = <<>> THEN {<<>>} ELSE {})
    /\ now = Len(reservations)
    /\ \E ty \in DraftTypes : \E nu \in DraftUnits(ty) :
         \E ci \in DraftCheckIns : \E co \in DraftCheckOuts :
           /\ form = [facilityType |-> ty, facilityNumber |-> nu,
                      checkIn |-> LocalMidnight(ci), checkOut |-> LocalMidnight(co)]
           /\ selectedFacility = <<[type |-> ty, number |-> nu]>>
    /\ checkInDate = NoDate
    /\ checkOutDate = NoDate
    /\ bookedDates = getBookedDatesForFacility(reservations, selectedFacility[1].type,
                                               selectedFacility[1].number)
    /\ hasConflict = FALSE
    /\ errors = {}
    /\ toast = "none"
    /\ OneBookingTab

\* The page opened on a stored collection with a draft in the form: submits
\* with any texts, cancellations, cleaning marks and reloads.
NextDraft ==
    \/ \E texts \in DraftTexts : Submit(texts) /\ Elsewhere
    \/ \E id \in Ids : cancelReservation(id) /\ Elsewhere
    \/ \E id \in Ids : markForCleaning(id) /\ Elsewhere
    \/ Mount /\ Elsewhere

SpecDraft == InitDraft /\ [][NextDraft]_vars

\* ----------------------------------------------- session-level specification
\* The values the form can hold when it is submitted: a type, one of its units
\* or none, two picked days in any order, and valid texts.
ValidTexts == {t \in TypedTexts : t.purpose = "Training session"}

SubmittedData(ty, nu, ci, co, tx) ==
    [facilityType |-> ty, facilityNumber |-> nu,
     guestName |-> tx.guestName, guestEmail |-> tx.guestEmail,
     instructorName |-> tx.instructorName, instructorEmail |-> tx.instructorEmail,
     checkIn |-> LocalMidnight(ci), checkOut |-> LocalMidnight(co),
     purpose |-> tx.purpose, specialRequests |-> tx.specialRequests]

\* A submission of the form holding these values, the form's own state left aside.
SubmitData ==
    \E ty \in SelectableTypes : \E nu \in UnitsOf(ty) \cup {Undefined} :
      \E ci \in Days : \E co \in Days : \E tx \in ValidTexts :
        /\ handleSubmit(SubmittedData(ty, nu, ci, co, tx))
        /\ Len(reservations') <= MaxRes

\* One session on the Manage and Book tabs: submissions, cancellations and
\* cleaning marks in any order, from a fresh mount on an empty store.
Next ==
    \/ SubmitData /\ Elsewhere
    \/ \E id \in Ids : cancelReservation(id) /\ Elsewhere
    \/ \E id \in Ids : markForCleaning(id) /\ Elsewhere

Spec == Init /\ [][Next]_vars

\* ---------------------------------------------------- two-tab specification
\* The days the two tabs book, and the number of reservations they create.
MaxTabDay == 2
MaxTabNow == 2

\* The component state one tab holds (lines 102-116 and the form): every tab
\* runs its own instance of FacilityBooking.
TabState ==
    [reservations |-> reservations, form |-> form, errors |-> errors,
     checkInDate |-> checkInDate, checkOutDate |-> checkOutDate,
     selectedFacility |-> selectedFacility, bookedDates |-> bookedDates,
     hasConflict |-> hasConflict, toast |-> toast]

\* Two tabs opened on an empty store: each one ran the mount effect
\* (lines 119-131) and found no entry.
InitTabs ==
    /\ reservations = <<>>
    /\ storage = <<>>
    /\ form = defaultValues
    /\ errors = {}
    /\ checkInDate = NoDate
    /\ checkOutDate = NoDate
    /\ selectedFacility = <<>>
    /\ bookedDates = <<>>
    /\ hasConflict = FALSE
    /\ now = 0
    /\ toast = "none"
    /\ others = <<TabState>>
    /\ ProfilesConstructed
    /\ AdminConstructed

\* The user turns to the other tab: its component state is the one the next
\* event acts on; the store and the clock are shared.
SwitchTab ==
    /\ others # <<>>
    /\ reservations' = others[1].reservations
    /\ form' = others[1].form
    /\ errors' = others[1].errors
    /\ checkInDate' = others[1].checkInDate
    /\ checkOutDate' = others[1].checkOutDate
    /\ selectedFacility' = others[1].selectedFacility
    /\ bookedDates' = others[1].bookedDates
    /\ hasConflict' = others[1].hasConflict
    /\ toast' = others[1].toast
    /\ others' = <<TabState>> \o Tail(others)
    /\ UNCHANGED <<storage, now, profilesVars, adminVars>>

\* A submission of a dorm booking in the front tab.
TabSubmit ==
    \E nu \in dormRooms : \E ci \in 1..MaxTabDay : \E co \in 1..MaxTabDay :
      \E tx \in ValidTexts :
        /\ handleSubmit(SubmittedData("dorm", nu, ci, co, tx))
        /\ Len(reservations') <= MaxRes
        /\ now' <= MaxTabNow

\* Two tabs on one store: submissions, cancellations, cleaning marks and
\* reloads in the front tab, and turns from one tab to the other.
NextTabs ==
    \/ TabSubmit /\ Elsewhere
    \/ \E id \in 1..MaxTabNow : cancelReservation(id) /\ Elsewhere
    \/ \E id \in 1..MaxTabNow : markForCleaning(id) /\ Elsewhere
    \/ Mount /\ Elsewhere
    \/ SwitchTab

SpecTabs == InitTabs /\ [][NextTabs]_vars

\* --------------------------------------------------- calendar specification
\* The reservations one run of the calendar specification creates.
MaxCalendarRes == 1

\* The booking form and the Manage tab together over all the days: selections,
\* picks, submits, cancellations and cleaning marks, from a fresh mount on an
\* empty store.
NextCalendar ==
    \/ \E value \in SelectableTypes : SelectFacilityType(value) /\ Elsewhere
    \/ \E value \in dormRooms : SelectFacilityNumber(value) /\ Elsewhere
    \/ \E day \in Days : PickCheckIn(day) /\ Elsewhere
    \/ ClearCheckIn /\ Elsewhere
    \/ \E day \in Days : PickCheckOut(day) /\ Elsewhere
    \/ ClearCheckOut /\ Elsewhere
    \/ \E texts \in ValidTexts :
         Submit(texts) /\ Len(reservations') <= MaxCalendarRes /\ Elsewhere
    \/ \E id \in 1..MaxCalendarRes : cancelReservation(id) /\ Elsewhere
    \/ \E id \in 1..MaxCalendarRes : markForCleaning(id) /\ Elsewhere

SpecCalendar == Init /\ [][NextCalendar]_vars

\* ============================================ src/app/profiles/page.tsx
\* The scheduling component (TrainingRecordsPage): scheduled classes and
\* their rosters.
MaxSeats == 2
MaxProfiles == 3
MaxSchedules == 1

\* scheduledClassSchema (lines 528-533): the bounds of maxAttendees.
MinAttendees == 1
MaxAttendees == 100

\* The training classes and the profiles the mount effect loaded (lines 573-590).
classes == {"class-1"}
profiles == 1..MaxProfiles

\* The values the schedule form can hold when it is submitted.
ScheduleFormData ==
    [classId : classes \cup {""}, facilityType : {"Classroom"},
     maxAttendees : 0..MaxSeats]

\* scheduledClassSchema (lines 528-533); min(1) on a string: not empty.
ScheduleIssues(data) ==
    Issue(data.classId = "", <<"classId", "Please select a class">>)
    \cup Issue(data.facilityType = "",
               <<"facilityType", "Please select a facility type">>)
    \cup Issue(data.maxAttendees < MinAttendees,
               <<"maxAttendees", "Must have at least 1 attendee">>)
    \cup Issue(data.maxAttendees > MaxAttendees,
               <<"maxAttendees", "Cannot exceed 100 attendees">>)

\* The save effect of lines 598-602, run on the state an action produces.
SaveScheduled == scheduledStorage' = <<scheduledClasses'>>

ScheduleIndices == 1..Len(scheduledClasses)

\* scheduledClasses.find(sc => sc.id === id): the index, 0 when there is none.
FindScheduled(id) ==
    IF \E i \in ScheduleIndices : scheduledClasses[i].id = id
    THEN CHOOSE i \in ScheduleIndices :
           /\ scheduledClasses[i].id = id
           /\ \A j \in 1..(i - 1) : scheduledClasses[j].id # id
    ELSE 0

\* The state after the mount effect found no stored entry (lines 573-590).
InitProfiles ==
    /\ scheduledClasses = <<>>
    /\ scheduledStorage = <<scheduledClasses>>
    /\ selectedParticipants = <<>>
    /\ currentScheduledClassId = <<>>
    /\ editingScheduledClassId = <<>>
    /\ isParticipantDialogOpen = FALSE
    /\ errorsSchedule = {}
    /\ scheduleToast = "none"
    /\ now = 0
    /\ reservations = <<>>
    /\ storage = <<>>
    /\ form = defaultValues
    /\ errors = {}
    /\ checkInDate = NoDate
    /\ checkOutDate = NoDate
    /\ selectedFacility = <<>>
    /\ bookedDates = <<>>
    /\ hasConflict = FALSE
    /\ toast = "none"
    /\ others = <<>>
    /\ AdminConstructed

\* onScheduleSubmit (lines 650-690), called with validated data.
onScheduleSubmit(data) ==
    IF data.classId \notin classes
    THEN /\ scheduleToast' = "Selected class not found"
         /\ UNCHANGED <<scheduledClasses, editingScheduledClassId, now>>
    ELSE IF editingScheduledClassId # <<>>
    THEN /\ scheduledClasses' =
              [i \in ScheduleIndices |->
                 IF scheduledClasses[i].id = editingScheduledClassId[1]
                 THEN [scheduledClasses[i] EXCEPT !.classId = data.classId,
                                                  !.className = data.classId,
                                                  !.facilityType = data.facilityType,
                                                  !.maxAttendees = data.maxAttendees]
                 ELSE scheduledClasses[i]]
         /\ scheduleToast' = "Scheduled class updated successfully!"
         /\ editingScheduledClassId' = <<>>
         /\ UNCHANGED now
    ELSE /\ now' = now + 1
         /\ scheduledClasses' =
              Append(scheduledClasses,
                     [id |-> now', classId |-> data.classId, className |-> data.classId,
                      facilityType |-> data.facilityType,
                      maxAttendees |-> data.maxAttendees,
                      participants |-> <<>>, createdAt |-> now'])
         /\ scheduleToast' = "Class scheduled successfully!"
         /\ UNCHANGED editingScheduledClassId

\* handleSubmitSchedule(onScheduleSubmit) (line 996): the resolver runs first.
handleSubmitSchedule(data) ==
    /\ ~isParticipantDialogOpen
    /\ errorsSchedule' = ScheduleIssues(data)
    /\ IF errorsSchedule' # {}
       THEN UNCHANGED <<scheduledClasses, editingScheduledClassId, now, scheduleToast>>
       ELSE onScheduleSubmit(data)
    /\ UNCHANGED <<selectedParticipants, currentScheduledClassId, isParticipantDialogOpen>>
    /\ SaveScheduled

\* editScheduledClass (lines 792-804), from the card of a scheduled class.
editScheduledClass(i) ==
    /\ ~isParticipantDialogOpen
    /\ i \in ScheduleIndices
    /\ editingScheduledClassId' = <<scheduledClasses[i].id>>
    /\ scheduleToast' = "Editing scheduled class"
    /\ UNCHANGED <<scheduledClasses, selectedParticipants, currentScheduledClassId,
                   isParticipantDialogOpen, errorsSchedule, now>>
    /\ SaveScheduled

\* cancelEdit (lines 806-810): resetSchedule clears the form and its errors.
cancelEdit ==
    /\ ~isParticipantDialogOpen
    /\ editingScheduledClassId # <<>>
    /\ editingScheduledClassId' = <<>>
    /\ errorsSchedule' = {}
    /\ UNCHANGED <<scheduledClasses, selectedParticipants, currentScheduledClassId,
                   isParticipantDialogOpen, scheduleToast, now>>
    /\ SaveScheduled

\* openParticipantDialog (lines 729-736).
openParticipantDialog(i) ==
    /\ ~isParticipantDialogOpen
    /\ i \in ScheduleIndices
    /\ currentScheduledClassId' = <<scheduledClasses[i].id>>
    /\ selectedParticipants' =
         [k \in 1..Len(scheduledClasses[i].participants) |->
            scheduledClasses[i].participants[k].id]
    /\ isParticipantDialogOpen' = TRUE
    /\ UNCHANGED <<scheduledClasses, editingScheduledClassId, errorsSchedule,
                   scheduleToast, now>>
    /\ SaveScheduled

\* prev.filter(id => id !== profileId) on a list of ids.
RECURSIVE WithoutId(_, _)
WithoutId(ids, profileId) ==
    IF ids = <<>> THEN <<>>
    ELSE (IF Head(ids) = profileId THEN <<>> ELSE <<Head(ids)>>)
         \o WithoutId(Tail(ids), profileId)

\* toggleParticipant (lines 738-746), from a checkbox of the dialog.
toggleParticipant(profileId) ==
    /\ isParticipantDialogOpen
    /\ selectedParticipants' =
         IF \E k \in 1..Len(selectedParticipants) : selectedParticipants[k] = profileId
         THEN WithoutId(selectedParticipants, profileId)
         ELSE Append(selectedParticipants, profileId)
    /\ UNCHANGED <<scheduledClasses, currentScheduledClassId, editingScheduledClassId,
                   isParticipantDialogOpen, errorsSchedule, scheduleToast, now>>
    /\ SaveScheduled

\* The Participant built for a profile id (lines 760-768).
NewParticipant(profileId) ==
    [id |-> profileId, name |-> profileId, type |-> "registration"]

\* saveParticipants (lines 748-780), from the Add Participants button of the
\* dialog, disabled while nothing is selected (line 1557).
saveParticipants ==
    /\ isParticipantDialogOpen
    /\ selectedParticipants # <<>>
    /\ IF currentScheduledClassId = <<>>
       THEN UNCHANGED <<scheduledClasses, selectedParticipants, currentScheduledClassId,
                        isParticipantDialogOpen, scheduleToast>>
       ELSE IF FindScheduled(currentScheduledClassId[1]) = 0
       THEN UNCHANGED <<scheduledClasses, selectedParticipants, currentScheduledClassId,
                        isParticipantDialogOpen, scheduleToast>>
       ELSE IF Len(selectedParticipants)
                 > scheduledClasses[FindScheduled(currentScheduledClassId[1])].maxAttendees
       THEN /\ scheduleToast' = "Cannot add more participants"
            /\ UNCHANGED <<scheduledClasses, selectedParticipants,
                           currentScheduledClassId, isParticipantDialogOpen>>
       ELSE /\ scheduledClasses' =
                 [i \in ScheduleIndices |->
                    IF scheduledClasses[i].id = currentScheduledClassId[1]
                    THEN [scheduledClasses[i] EXCEPT !.participants =
                            [k \in 1..Len(selectedParticipants) |->
                               NewParticipant(selectedParticipants[k])]]
                    ELSE scheduledClasses[i]]
            /\ isParticipantDialogOpen' = FALSE
            /\ currentScheduledClassId' = <<>>
            /\ selectedParticipants' = <<>>
            /\ scheduleToast' = "participant(s) added successfully!"
    /\ UNCHANGED <<editingScheduledClassId, errorsSchedule, now>>
    /\ SaveScheduled

\* The dialog's Cancel button (lines 1545-1552).
CancelParticipantDialog ==
    /\ isParticipantDialogOpen
    /\ isParticipantDialogOpen' = FALSE
    /\ selectedParticipants' = <<>>
    /\ UNCHANGED <<scheduledClasses, currentScheduledClassId, editingScheduledClassId,
                   errorsSchedule, scheduleToast, now>>
    /\ SaveScheduled

\* sc.participants.filter(p => p.id !== participantId)
RECURSIVE WithoutParticipant(_, _)
WithoutParticipant(list, participantId) ==
    IF list = <<>> THEN <<>>
    ELSE (IF Head(list).id = participantId THEN <<>> ELSE <<Head(list)>>)
         \o WithoutParticipant(Tail(list), participantId)

\* removeParticipant (lines 782-789), from the roster of a scheduled class.
removeParticipant(i, participantId) ==
    /\ ~isParticipantDialogOpen
    /\ i \in ScheduleIndices
    /\ \E k \in 1..Len(scheduledClasses[i].participants) :
         scheduledClasses[i].participants[k].id = participantId
    /\ scheduledClasses' =
         [j \in ScheduleIndices |->
            IF scheduledClasses[j].id = scheduledClasses[i].id
            THEN [scheduledClasses[j] EXCEPT !.participants =
                    WithoutParticipant(scheduledClasses[j].participants, participantId)]
            ELSE scheduledClasses[j]]
    /\ scheduleToast' = "Participant removed"
    /\ UNCHANGED <<selectedParticipants, currentScheduledClassId,
                   editingScheduledClassId, isParticipantDialogOpen, errorsSchedule, now>>
    /\ SaveScheduled

\* What a handler of the scheduling component leaves alone.
OffSchedule == UNCHANGED <<bookingVars, others, adminVars>>

\* Scheduling, editing a schedule and managing rosters, in any order.
NextProfiles ==
    \/ \E data \in ScheduleFormData :
         /\ handleSubmitSchedule(data)
         /\ Len(scheduledClasses') <= MaxSchedules
         /\ OffSchedule
    \/ \E i \in 1..MaxSchedules : editScheduledClass(i) /\ OffSchedule
    \/ cancelEdit /\ OffSchedule
    \/ \E i \in 1..MaxSchedules : openParticipantDialog(i) /\ OffSchedule
    \/ \E profileId \in profiles : toggleParticipant(profileId) /\ OffSchedule
    \/ saveParticipants /\ OffSchedule
    \/ CancelParticipantDialog /\ OffSchedule
    \/ \E i \in 1..MaxSchedules : \E participantId \in profiles :
         removeParticipant(i, participantId) /\ OffSchedule

SpecProfiles == InitProfiles /\ [][NextProfiles]_vars

\* ================================== src/app/user-administration/page.tsx
\* Roles and their permission matrices. A permissions object maps a module id
\* to a per-module object, which maps a section to an array of permissions
\* (interface Role, lines 88-98). The per-module objects live in heap and the
\* permissions objects hold references to them, because togglePermission
\* copies the outer object only; description is carried like name and left out.
MaxStoredRoles == 1
MaxRoles == 2
MaxCreatedRoles == 1

\* APPLICATION_MODULES (lines 21-64): the sections of each module.
APPLICATION_MODULES ==
    [moduleId \in {"new-application", "track-application", "user-registration",
                   "profiles", "facility-booking", "training-records",
                   "user-administration"} |->
       CASE moduleId = "new-application" ->
              {"Personal Information", "Address Information", "Contact Information"}
         [] moduleId = "track-application" -> {"View Status", "Download Documents"}
         [] moduleId = "user-registration" ->
              {"Personal Information", "Contact Information", "Address Information",
               "Employment Information"}
         [] moduleId = "profiles" ->
              {"View All Profiles", "View Applications", "View Registrations",
               "View Details"}
         [] moduleId = "facility-booking" ->
              {"Book Facility", "Manage Reservations", "Calendar View"}
         [] moduleId = "training-records" ->
              {"Create Class", "View Classes", "Schedule Class", "Manage Participants"}
         [] OTHER -> {"Manage Users", "Manage Roles", "Assign Permissions"}]

\* CRUD_PERMISSIONS (line 66).
CRUD_PERMISSIONS == {"Create", "Read", "Update", "Delete"}

\* The checkboxes the runs click: the cells of the session runs, the cells of
\* the toggle runs, and the permissions of both.
SessionCells == {<<"track-application", "View Status">>}
ToggleCells == {<<"track-application", "View Status">>,
                <<"track-application", "Download Documents">>,
                <<"facility-booking", "Book Facility">>}
ClickedPermissions == {"Create", "Read"}

\* The names the runs type into the Role Name input.
TypedRoleNames == {"", " ", "Auditor"}

\* String.prototype.trim on the names above.
Trim(name) == IF name = " " THEN "" ELSE name

\* defaultRoles (lines 137-156), permissions: {} in each.
defaultRoles ==
    <<[id |-> "role-admin", name |-> "Administrator", permissions |-> EmptyObject],
      [id |-> "role-instructor", name |-> "Instructor", permissions |-> EmptyObject],
      [id |-> "role-applicant", name |-> "Applicant", permissions |-> EmptyObject]>>

\* The references a permissions object holds, and the objects still referenced.
Refs(permissions) == {permissions[moduleId] : moduleId \in DOMAIN permissions}

Live(roleList, permissions) ==
    Refs(permissions)
    \cup UNION {Refs(roleList[i].permissions) : i \in 1..Len(roleList)}

\* Garbage collection: an object nothing refers to any more is gone.
Collect(h, roleList, permissions) ==
    [r \in 1..MaxObjects |-> IF r \in Live(roleList, permissions) THEN h[r]
                             ELSE EmptyObject]

\* The reference a newly created object gets.
FreeRefs == (1..MaxObjects) \ Live(roles, rolePermissions)
NewRef == CHOOSE r \in FreeRefs : \A q \in FreeRefs : r <= q

\* The value of a permissions object: module -> section -> array.
Matrix(permissions, h) ==
    [moduleId \in DOMAIN permissions |-> h[permissions[moduleId]]]

\* JSON.stringify(updatedRoles) (line 175): references are written by value.
StringifyRoles(roleList, h) ==
    [i \in 1..Len(roleList) |->
       [id |-> roleList[i].id, name |-> roleList[i].name,
        permissions |-> Matrix(roleList[i].permissions, h)]]

\* permissions.indexOf(permission) > -1
Includes(permissions, permission) ==
    \E k \in 1..Len(permissions) : permissions[k] = permission

\* permissions.filter((p) => p !== permission)
RECURSIVE WithoutPermission(_, _)
WithoutPermission(permissions, permission) ==
    IF permissions = <<>> THEN <<>>
    ELSE (IF Head(permissions) = permission THEN <<>> ELSE <<Head(permissions)>>)
         \o WithoutPermission(Tail(permissions), permission)

\* Mutant: the toggled section written into a new per-module object.
ToggledObject_FreshModule(prev, h, moduleId, section, permission) ==
    LET object == IF moduleId \in DOMAIN prev THEN h[prev[moduleId]] ELSE EmptyObject
        permissions == IF section \in DOMAIN object THEN object[section] ELSE <<>>
    IN  (section :> (IF Includes(permissions, permission)
                     THEN WithoutPermission(permissions, permission)
                     ELSE Append(permissions, permission)))

\* updated[moduleId] after the updater of lines 237-255 ran: the object that
\* was there (or a new {}), with the section's array replaced.
ToggledObject(prev, h, moduleId, section, permission) ==
    LET object == IF moduleId \in DOMAIN prev THEN h[prev[moduleId]] ELSE EmptyObject
        permissions == IF section \in DOMAIN object THEN object[section] ELSE <<>>
    IN  (section :> (IF Includes(permissions, permission)
                     THEN WithoutPermission(permissions, permission)
                     ELSE Append(permissions, permission)))
        @@ object

\* The updater of lines 237-255 on the state prev and the heap h, the new
\* per-module object getting the reference ref: { ...prev } copies the
\* references, updated[moduleId] is the object prev refers to when there is
\* one, and the assignment to updated[moduleId][section] writes into it.
Toggled(prev, h, ref, moduleId, section, permission) ==
    LET target == IF moduleId \in DOMAIN prev THEN prev[moduleId] ELSE ref
    IN  [permissions |-> (moduleId :> target) @@ prev,
         heap |-> [h EXCEPT ![target] =
                     ToggledObject(prev, h, moduleId, section, permission)]]

\* togglePermission (lines 236-256), from a checkbox of the role dialog.
togglePermission(moduleId, section, permission) ==
    /\ isRoleDialogOpen
    /\ moduleId \in DOMAIN rolePermissions \/ FreeRefs # {}
    /\ LET result == Toggled(rolePermissions, heap, NewRef, moduleId, section, permission)
       IN  /\ rolePermissions' = result.permissions
           /\ heap' = result.heap
    /\ UNCHANGED <<roles, adminRoles, editingRole, isRoleDialogOpen, newRoleName,
                   adminToast, now>>

\* The state after the mount effect (lines 125-162) read a store that holds
\* the first default roles, the others deleted in an earlier session.
InitAdmin ==
    /\ roles = SubSeq(defaultRoles, 1, MaxStoredRoles)
    /\ adminRoles = <<StringifyRoles(roles, EmptyHeap)>>
    /\ editingRole = <<>>
    /\ rolePermissions = EmptyObject
    /\ heap = EmptyHeap
    /\ isRoleDialogOpen = FALSE
    /\ newRoleName = ""
    /\ adminToast = "none"
    /\ now = 0
    /\ reservations = <<>>
    /\ storage = <<>>
    /\ form = defaultValues
    /\ errors = {}
    /\ checkInDate = NoDate
    /\ checkOutDate = NoDate
    /\ selectedFacility = <<>>
    /\ bookedDates = <<>>
    /\ hasConflict = FALSE
    /\ toast = "none"
    /\ others = <<>>
    /\ ProfilesConstructed

\* The Create Role button (lines 428-434).
OpenCreateRole ==
    /\ ~isRoleDialogOpen
    /\ editingRole' = <<>>
    /\ newRoleName' = ""
    /\ rolePermissions' = EmptyObject
    /\ isRoleDialogOpen' = TRUE
    /\ heap' = Collect(heap, roles, rolePermissions')
    /\ UNCHANGED <<roles, adminRoles, adminToast, now>>

\* handleEditRole (lines 270-276): rolePermissions becomes the role's own
\* permissions object.
handleEditRole(i) ==
    /\ ~isRoleDialogOpen
    /\ i \in 1..Len(roles)
    /\ editingRole' = <<roles[i]>>
    /\ newRoleName' = roles[i].name
    /\ rolePermissions' = roles[i].permissions
    /\ isRoleDialogOpen' = TRUE
    /\ heap' = Collect(heap, roles, rolePermissions')
    /\ UNCHANGED <<roles, adminRoles, adminToast, now>>

\* The Role Name input, onChange (line 644).
SetRoleName(name) ==
    /\ isRoleDialogOpen
    /\ newRoleName' = name
    /\ UNCHANGED <<roles, adminRoles, editingRole, rolePermissions, heap,
                   isRoleDialogOpen, adminToast, now>>

\* The role dialog's Cancel button (lines 703-713).
CancelRole ==
    /\ isRoleDialogOpen
    /\ isRoleDialogOpen' = FALSE
    /\ editingRole' = <<>>
    /\ newRoleName' = ""
    /\ rolePermissions' = EmptyObject
    /\ heap' = Collect(heap, roles, rolePermissions')
    /\ UNCHANGED <<roles, adminRoles, adminToast, now>>

\* The dialog dismissed otherwise: onOpenChange={setIsRoleDialogOpen} (line 628).
DismissRoleDialog ==
    /\ isRoleDialogOpen
    /\ isRoleDialogOpen' = FALSE
    /\ UNCHANGED <<roles, adminRoles, editingRole, rolePermissions, heap,
                   newRoleName, adminToast, now>>

\* handleCreateRole (lines 203-233), the Update Role / Create Role button;
\* saveRoles (lines 173-178) writes the store and sets roles.
handleCreateRole ==
    /\ isRoleDialogOpen
    /\ IF Trim(newRoleName) = ""
       THEN /\ adminToast' = "Role name is required"
            /\ UNCHANGED <<roles, adminRoles, editingRole, rolePermissions, heap,
                           isRoleDialogOpen, newRoleName, now>>
       ELSE /\ IF editingRole # <<>>
               THEN /\ roles' = [i \in 1..Len(roles) |->
                                   IF roles[i].id = editingRole[1].id
                                   THEN [roles[i] EXCEPT !.name = newRoleName,
                                                         !.permissions = rolePermissions]
                                   ELSE roles[i]]
                    /\ adminToast' = "Role updated successfully"
                    /\ UNCHANGED now
               ELSE /\ now' = now + 1
                    /\ roles' = Append(roles, [id |-> "role-" \o ToString(now'),
                                               name |-> newRoleName,
                                               permissions |-> rolePermissions])
                    /\ adminToast' = "Role created successfully"
            /\ adminRoles' = <<StringifyRoles(roles', heap)>>
            /\ isRoleDialogOpen' = FALSE
            /\ editingRole' = <<>>
            /\ newRoleName' = ""
            /\ rolePermissions' = EmptyObject
            /\ heap' = Collect(heap, roles', rolePermissions')

\* handleDeleteRole (lines 286-290), from the card of a role.
handleDeleteRole(i) ==
    /\ ~isRoleDialogOpen
    /\ i \in 1..Len(roles)
    /\ roles' = SelectSeq(roles, LAMBDA role : role.id # roles[i].id)
    /\ adminRoles' = <<StringifyRoles(roles', heap)>>
    /\ adminToast' = "Role deleted successfully"
    /\ heap' = Collect(heap, roles', rolePermissions)
    /\ UNCHANGED <<editingRole, rolePermissions, isRoleDialogOpen, newRoleName, now>>

\* What a handler of the administration page leaves alone.
OffAdmin == UNCHANGED <<bookingVars, others, profilesVars>>

\* One session on the Manage Roles tab.
NextAdmin ==
    \/ OpenCreateRole /\ OffAdmin
    \/ \E i \in 1..MaxRoles : handleEditRole(i) /\ OffAdmin
    \/ \E name \in TypedRoleNames : SetRoleName(name) /\ OffAdmin
    \/ \E cell \in SessionCells : \E permission \in ClickedPermissions :
         togglePermission(cell[1], cell[2], permission) /\ OffAdmin
    \/ CancelRole /\ OffAdmin
    \/ DismissRoleDialog /\ OffAdmin
    \/ handleCreateRole /\ Len(roles') <= MaxRoles /\ now' <= MaxCreatedRoles /\ OffAdmin
    \/ \E i \in 1..MaxRoles : handleDeleteRole(i) /\ OffAdmin

SpecAdmin == InitAdmin /\ [][NextAdmin]_vars

\* The role dialog opened for a new role on the mounted page, and any
\* clicks on its checkboxes.
InitToggle ==
    /\ roles = SubSeq(defaultRoles, 1, MaxStoredRoles)
    /\ adminRoles = <<StringifyRoles(roles, EmptyHeap)>>
    /\ editingRole = <<>>
    /\ rolePermissions = EmptyObject
    /\ heap = EmptyHeap
    /\ isRoleDialogOpen = TRUE
    /\ newRoleName = ""
    /\ adminToast = "none"
    /\ now = 0
    /\ reservations = <<>>
    /\ storage = <<>>
    /\ form = defaultValues
    /\ errors = {}
    /\ checkInDate = NoDate
    /\ checkOutDate = NoDate
    /\ selectedFacility = <<>>
    /\ bookedDates = <<>>
    /\ hasConflict = FALSE
    /\ toast = "none"
    /\ others = <<>>
    /\ ProfilesConstructed

NextToggle ==
    \E cell \in ToggleCells : \E permission \in ClickedPermissions :
      togglePermission(cell[1], cell[2], permission) /\ OffAdmin

SpecToggle == InitToggle /\ [][NextToggle]_vars

\* ======================================================== verified claims
\* Reference notions, stated on calendar days and independent of the code's
\* date arithmetic and filters.

\* The local calendar day a stored ISO string denotes.
IsoDay(iso) == (iso[1] * HoursPerDay + iso[2] - TimeZoneOffset) \div HoursPerDay

\* The local calendar day of a Date.
CalendarDay(d) == (d - TimeZoneOffset) \div HoursPerDay

\* The unit a stored record names, if any.
UnitOf(r) == IF "facilityNumber" \in DOMAIN r THEN r.facilityNumber ELSE Undefined

\* Closed day ranges [a, b] and [c, d] share a day.
RangesOverlap(a, b, c, d) == a <= d /\ c <= b

\* Two records name the same facility identity.
SameIdentity(r1, r2) ==
    r1.facilityType = r2.facilityType /\ UnitOf(r1) = UnitOf(r2)

RecordsOverlap(r1, r2) ==
    RangesOverlap(IsoDay(r1.checkIn), IsoDay(r1.checkOut),
                  IsoDay(r2.checkIn), IsoDay(r2.checkOut))

Indices == 1..Len(reservations)

\* C1: no two distinct active reservations of the same facility identity
\* (facilityType, facilityNumber) have overlapping inclusive ranges
\* [checkIn, checkOut], after any sequence of submissions, cancellations and
\* cleaning marks from an empty collection.
C1_NoDoubleBooking ==
    \A i \in Indices : \A j \in Indices :
        (/\ i # j
         /\ reservations[i].status = "active"
         /\ reservations[j].status = "active"
         /\ SameIdentity(reservations[i], reservations[j]))
        => ~RecordsOverlap(reservations[i], reservations[j])

\* C1 witness: a submission has just added a second active reservation of an
\* identity that already had one.
C1_Witness ==
    /\ toast = "Reservation created successfully!"
    /\ \E i \in Indices : \E j \in Indices :
         /\ i # j
         /\ reservations[i].status = "active"
         /\ reservations[j].status = "active"
         /\ SameIdentity(reservations[i], reservations[j])

\* The candidate the form holds, and the reference notions for it.
ConflictToast == "This facility is already booked for the selected dates."
CreatedToast == "Reservation created successfully!"

CandidateSet == form.checkIn # NoDate /\ form.checkOut # NoDate
CandidateOrdered == CandidateSet /\ form.checkIn < form.checkOut

CandidateConflict ==
    checkForConflicts(reservations, form.facilityType, form.facilityNumber,
                      form.checkIn, form.checkOut)

CandidateOverlaps(r) ==
    RangesOverlap(CalendarDay(form.checkIn), CalendarDay(form.checkOut),
                  IsoDay(r.checkIn), IsoDay(r.checkOut))

\* r is active, of the candidate's type and, when the candidate names a unit,
\* of that unit.
CandidateMatches(r) ==
    /\ r.status = "active"
    /\ r.facilityType = form.facilityType
    /\ (form.facilityNumber \in {Undefined, ""} \/ UnitOf(r) = form.facilityNumber)

\* C2: for a candidate with checkIn < checkOut, checkForConflicts is true
\* exactly when some matching active reservation [c, d] has checkIn <= d and
\* c <= checkOut; a submission rejected as conflicting has such a reservation.
C2_ConflictIffOverlap ==
    CandidateOrdered =>
        /\ CandidateConflict <=>
             \E i \in Indices : CandidateMatches(reservations[i])
                                /\ CandidateOverlaps(reservations[i])
        /\ toast = ConflictToast =>
             \E i \in Indices : CandidateMatches(reservations[i])
                                /\ CandidateOverlaps(reservations[i])

\* C2 witness: a submitted candidate that strictly contains a matching active
\* range, neither endpoint inside it, was rejected as conflicting.
C2_Witness ==
    /\ toast = ConflictToast
    /\ CandidateOrdered
    /\ \E i \in Indices :
         /\ CandidateMatches(reservations[i])
         /\ CalendarDay(form.checkIn) < IsoDay(reservations[i].checkIn)
         /\ IsoDay(reservations[i].checkOut) < CalendarDay(form.checkOut)

\* C3: a candidate that starts on the day a matching active reservation ends,
\* or ends on the day one starts, is reported as conflicting.
C3_TouchingEndpointsConflict ==
    \A i \in Indices :
        (/\ CandidateOrdered
         /\ CandidateMatches(reservations[i])
         /\ \/ CalendarDay(form.checkIn) = IsoDay(reservations[i].checkOut)
            \/ CalendarDay(form.checkOut) = IsoDay(reservations[i].checkIn))
        => CandidateConflict

\* C3 witness: a submitted candidate starting on the day a matching
\* active reservation ends was rejected as conflicting.
C3_Witness ==
    /\ toast = ConflictToast
    /\ CandidateOrdered
    /\ \E i \in Indices :
         /\ CandidateMatches(reservations[i])
         /\ CalendarDay(form.checkIn) = IsoDay(reservations[i].checkOut)

\* C4: when the candidate names a unit, only active reservations of the same
\* type and exactly that unit count: it conflicts exactly when one of those
\* overlaps it, and a rejection is always due to one of those.
C4_UnitScoping ==
    (CandidateOrdered /\ Truthy(form.facilityNumber)) =>
        /\ CandidateConflict <=>
             \E i \in Indices :
                /\ reservations[i].status = "active"
                /\ reservations[i].facilityType = form.facilityType
                /\ UnitOf(reservations[i]) = form.facilityNumber
                /\ CandidateOverlaps(reservations[i])
        /\ toast = ConflictToast =>
             \E i \in Indices :
                /\ reservations[i].status = "active"
                /\ UnitOf(reservations[i]) = form.facilityNumber
                /\ CandidateOverlaps(reservations[i])

\* C4 witness: two active dorm reservations for different units cover
\* identical dates, the second just created.
C4_Witness ==
    /\ toast = CreatedToast
    /\ \E i \in Indices : \E j \in Indices :
         /\ i < j
         /\ reservations[i].status = "active"
         /\ reservations[j].status = "active"
         /\ reservations[i].facilityType = "dorm"
         /\ reservations[j].facilityType = "dorm"
         /\ Truthy(UnitOf(reservations[i]))
         /\ Truthy(UnitOf(reservations[j]))
         /\ UnitOf(reservations[i]) # UnitOf(reservations[j])
         /\ IsoDay(reservations[i].checkIn) = IsoDay(reservations[j].checkIn)
         /\ IsoDay(reservations[i].checkOut) = IsoDay(reservations[j].checkOut)

\* C5: when the candidate names no unit, every active reservation of its type
\* counts whatever unit it stores: it conflicts exactly when one of those
\* overlaps it, and a unit-less reservation is never created over one.
C5_UnitlessSharing ==
    /\ (CandidateOrdered /\ ~Truthy(form.facilityNumber)) =>
         (CandidateConflict <=>
            \E i \in Indices :
               /\ reservations[i].status = "active"
               /\ reservations[i].facilityType = form.facilityType
               /\ CandidateOverlaps(reservations[i]))
    /\ (toast = CreatedToast /\ ~Truthy(UnitOf(reservations[Len(reservations)]))) =>
         \A i \in 1..(Len(reservations) - 1) :
            (/\ reservations[i].status = "active"
             /\ reservations[i].facilityType =
                  reservations[Len(reservations)].facilityType)
            => ~RecordsOverlap(reservations[i], reservations[Len(reservations)])

\* C5 witness: a submitted candidate without a unit was rejected because of an
\* active reservation of its type that stores a unit.
C5_Witness ==
    /\ toast = ConflictToast
    /\ CandidateOrdered
    /\ ~Truthy(form.facilityNumber)
    /\ \E i \in Indices :
         /\ reservations[i].status = "active"
         /\ reservations[i].facilityType = form.facilityType
         /\ Truthy(UnitOf(reservations[i]))
         /\ CandidateOverlaps(reservations[i])

\* Some matching active reservation overlaps the candidate in the form.
CandidateBlocked ==
    /\ CandidateOrdered
    /\ \E i \in Indices : CandidateMatches(reservations[i])
                          /\ CandidateOverlaps(reservations[i])

\* C6: a validated submission whose candidate overlaps a matching active
\* reservation shows the conflict error and leaves the in-memory collection
\* and the persisted collection exactly as they were; the button being enabled
\* (hasConflict false) does not let it through.
C6_ConflictingSubmitCreatesNothing ==
    [][\A texts \in TypedTexts :
         (/\ Submit(texts)
          /\ SchemaIssues(FormData(texts)) = {}
          /\ CandidateBlocked)
         => (/\ reservations' = reservations
             /\ storage' = storage
             /\ toast' = ConflictToast)]_vars

\* C6 witness: the conflict error is showing for a candidate that overlaps a
\* matching active reservation while hasConflict is false, and the store
\* holds the collection as it is in memory.
C6_Witness ==
    /\ toast = ConflictToast
    /\ ~hasConflict
    /\ CandidateBlocked
    /\ storage = <<JSONStringify(reservations)>>

\* The store holds the given collection, field by field (a key the store
\* lacks is one whose value is undefined).
PersistedAs(stored, list) ==
    /\ stored # <<>>
    /\ Len(stored[1]) = Len(list)
    /\ \A i \in 1..Len(list) :
         /\ DOMAIN stored[1][i] \subseteq DOMAIN list[i]
         /\ \A k \in DOMAIN stored[1][i] : stored[1][i][k] = list[i][k]
         /\ \A k \in DOMAIN list[i] \ DOMAIN stored[1][i] : list[i][k] = Undefined

\* C7: a validated submission whose candidate overlaps no matching active
\* reservation appends exactly one record, active, not needing cleaning, with
\* the submitted facility identity and dates; every earlier record stays as
\* it was, and the new collection is persisted.
C7_ValidSubmitAppendsOne ==
    [][\A texts \in TypedTexts :
         (/\ Submit(texts)
          /\ SchemaIssues(FormData(texts)) = {}
          /\ ~CandidateBlocked)
         => (/\ Len(reservations') = Len(reservations) + 1
             /\ SubSeq(reservations', 1, Len(reservations)) = reservations
             /\ reservations'[Len(reservations')].status = "active"
             /\ reservations'[Len(reservations')].needsCleaning = FALSE
             /\ reservations'[Len(reservations')].facilityType = form.facilityType
             /\ UnitOf(reservations'[Len(reservations')]) = form.facilityNumber
             /\ IsoDay(reservations'[Len(reservations')].checkIn)
                  = CalendarDay(form.checkIn)
             /\ IsoDay(reservations'[Len(reservations')].checkOut)
                  = CalendarDay(form.checkOut)
             /\ PersistedAs(storage', reservations')
             /\ toast' = CreatedToast)]_vars

\* C7 witness: a reservation starting the day after an active reservation of
\* the same identity ends has just been created and persisted.
C7_Witness ==
    /\ toast = CreatedToast
    /\ PersistedAs(storage, reservations)
    /\ \E i \in Indices :
         /\ i < Len(reservations)
         /\ reservations[i].status = "active"
         /\ SameIdentity(reservations[i], reservations[Len(reservations)])
         /\ IsoDay(reservations[Len(reservations)].checkIn)
              = IsoDay(reservations[i].checkOut) + 1
         /\ reservations[Len(reservations)].status = "active"

CancelledToast == "Reservation cancelled"

\* C8: cancelReservation(id) sets the status of the reservation with that id
\* to cancelled, sets its needsCleaning to true when its prior status was
\* active and never turns the flag on otherwise, changes no other field of
\* it, and changes no other record.
C8_CancelEffect ==
    [][\A id \in Ids :
         cancelReservation(id) =>
           /\ Len(reservations') = Len(reservations)
           /\ \A i \in Indices :
                IF reservations[i].id = id
                THEN /\ reservations'[i].status = "cancelled"
                     /\ reservations[i].status = "active"
                          => reservations'[i].needsCleaning = TRUE
                     /\ reservations[i].status # "active"
                          => (reservations'[i].needsCleaning
                                => reservations[i].needsCleaning)
                     /\ reservations'[i] =
                          [reservations[i] EXCEPT
                             !.status = "cancelled",
                             !.needsCleaning = reservations'[i].needsCleaning]
                ELSE reservations'[i] = reservations[i]]_vars

\* C8 witness: after a cancellation, one reservation is cancelled and flagged
\* for cleaning while another is still active and unflagged.
C8_Witness ==
    /\ toast = CancelledToast
    /\ \E i \in Indices : \E j \in Indices :
         /\ i # j
         /\ reservations[i].status = "cancelled"
         /\ reservations[i].needsCleaning = TRUE
         /\ reservations[j].status = "active"
         /\ reservations[j].needsCleaning = FALSE

\* C9: cancelling a reservation that is already cancelled leaves it as it is
\* (needsCleaning in particular is not reset): cancel applied twice yields the
\* same record as cancel applied once.
C9_CancelTwiceSameAsOnce ==
    [][\A id \in Ids : \A i \in Indices :
         (/\ cancelReservation(id)
          /\ reservations[i].id = id
          /\ reservations[i].status = "cancelled")
         => reservations'[i] = reservations[i]]_vars

\* r belongs to the facility identity (ty, nu): a candidate without a unit
\* competes with every reservation of its type.
OfFacility(r, ty, nu) ==
    r.facilityType = ty /\ (nu \in {Undefined, ""} \/ UnitOf(r) = nu)

\* C10: only active reservations count. A candidate range that overlaps only
\* cancelled reservations of its facility reports no conflict, and every
\* booked date of a facility lies in the range of an active reservation of it.
C10_CancelledFreesSlot ==
    \A ty \in SelectableTypes : \A nu \in UnitsOf(ty) \cup {Undefined} :
        /\ \A ci \in Days : \A co \in Days :
             (/\ ci < co
              /\ \A i \in Indices :
                   (/\ OfFacility(reservations[i], ty, nu)
                    /\ RangesOverlap(ci, co, IsoDay(reservations[i].checkIn),
                                     IsoDay(reservations[i].checkOut)))
                   => reservations[i].status # "active")
             => ~checkForConflicts(reservations, ty, nu,
                                   LocalMidnight(ci), LocalMidnight(co))
        /\ LET booked == getBookedDatesForFacility(reservations, ty, nu) IN
           \A k \in 1..Len(booked) :
             \E i \in Indices :
                /\ reservations[i].status = "active"
                /\ OfFacility(reservations[i], ty, nu)
                /\ IsoDay(reservations[i].checkIn) <= CalendarDay(booked[k])
                /\ CalendarDay(booked[k]) <= IsoDay(reservations[i].checkOut)

\* C10 witness: a reservation has just been created over the dates of a
\* cancelled reservation of the same facility identity.
C10_Witness ==
    /\ toast = CreatedToast
    /\ \E i \in Indices :
         /\ i < Len(reservations)
         /\ reservations[i].status = "cancelled"
         /\ reservations[Len(reservations)].status = "active"
         /\ SameIdentity(reservations[i], reservations[Len(reservations)])
         /\ RecordsOverlap(reservations[i], reservations[Len(reservations)])

\* Whole days from the check-in day to the check-out day of a record.
StayDays(r) == IsoDay(r.checkOut) - IsoDay(r.checkIn)

\* C11: in every reachable state every reservation of the collection has its
\* check-out after its check-in and at most 180 days after it.
C11_DatesOrderedAndCapped ==
    \A i \in Indices :
        /\ StayDays(reservations[i]) > 0
        /\ StayDays(reservations[i]) <= 180

\* C11 witness: a reservation of exactly 180 days has just been created.
C11_Witness ==
    /\ toast = CreatedToast
    /\ reservations # <<>>
    /\ reservations[Len(reservations)].id = now
    /\ StayDays(reservations[Len(reservations)]) = 180

DurationIssue == <<"checkOut", "Reservation cannot exceed 6 months">>
DateOrderIssue == <<"checkOut", "End date must be after start date">>

\* The form holds both dates.
DraftDated == form.checkIn # NoDate /\ form.checkOut # NoDate

\* Calendar days from the form's start date to its end date.
DraftDays == CalendarDay(form.checkOut) - CalendarDay(form.checkIn)

\* C12: a submission whose dates are 181 days apart is rejected with the
\* duration failure and creates nothing; one of exactly 180 days passes the
\* duration rule; one whose end date is not after its start date is rejected
\* with the date-order failure and creates nothing.
C12_DurationBoundary ==
    [][\A texts \in DraftTexts :
         (Submit(texts) /\ DraftDated) =>
            /\ DraftDays = 181
                 => (/\ DurationIssue \in errors'
                     /\ reservations' = reservations
                     /\ storage' = storage)
            /\ DraftDays = 180 => DurationIssue \notin errors'
            /\ DraftDays <= 0
                 => (/\ DateOrderIssue \in errors'
                     /\ reservations' = reservations
                     /\ storage' = storage)]_vars

\* C12 witness: a draft of 181 days has been submitted and refused for its
\* duration alone, the collection being what the store holds.
C12_Witness ==
    /\ DraftDated
    /\ DraftDays = 181
    /\ errors = {DurationIssue}
    /\ storage = <<JSONStringify(reservations)>>

ContactIssue == <<"guestName", "Required contact information is missing">>

\* The draft satisfies the date and purpose preconditions and meets no
\* matching active reservation.
DraftOtherwiseValid(texts) ==
    /\ DraftDated
    /\ DraftDays > 0
    /\ DraftDays <= 180
    /\ texts.purpose = "Training session"
    /\ ~CandidateBlocked

\* C13: a dorm submission without a guest e-mail (or without a guest name) is
\* rejected with the missing-contact failure, and the otherwise identical
\* classroom submission, with no guest fields and a valid instructor name and
\* e-mail, passes validation and creates the reservation.
C13_ContactBranching ==
    [][\A texts \in DraftTexts :
         (Submit(texts) /\ DraftOtherwiseValid(texts)) =>
            /\ (/\ form.facilityType = "dorm"
                /\ (texts.guestName = "" \/ texts.guestEmail = ""))
                 => (/\ ContactIssue \in errors'
                     /\ reservations' = reservations)
            /\ (/\ form.facilityType = "classroom"
                /\ texts.guestName = ""
                /\ texts.guestEmail = ""
                /\ texts.instructorName = "Jane Smith"
                /\ texts.instructorEmail = "jane.smith@psp.gov")
                 => (/\ errors' = {}
                     /\ Len(reservations') = Len(reservations) + 1
                     /\ toast' = CreatedToast)]_vars

\* The draft breaks one of the preconditions of a submission: the order of
\* its dates, the duration cap, the contact pair of its type, the length of
\* its purpose.
DraftViolates(texts) ==
    \/ DraftDated /\ DraftDays <= 0
    \/ DraftDated /\ DraftDays > 180
    \/ form.facilityType = "dorm" /\ (texts.guestName = "" \/ texts.guestEmail = "")
    \/ form.facilityType # "dorm"
         /\ (texts.instructorName = "" \/ texts.instructorEmail = "")
    \/ texts.purpose = "Training"

\* The draft's range meets the range of an active reservation of its facility.
DraftMeetsActive ==
    /\ DraftDated
    /\ \E i \in Indices : CandidateMatches(reservations[i])
                          /\ CandidateOverlaps(reservations[i])

\* C14: a submission whose draft breaks a precondition is refused as a
\* validation failure, with no conflict message and no write to the collection
\* or the store, whether or not its dates meet an active reservation.
C14_ValidationFirst ==
    [][\A texts \in DraftTexts :
         (Submit(texts) /\ DraftViolates(texts)) =>
            /\ errors' # {}
            /\ toast' = toast
            /\ reservations' = reservations
            /\ storage' = storage]_vars

\* C14 witness: a draft with too short a purpose, over the dates of an active
\* reservation of its facility, has been refused for its purpose and no
\* conflict message was shown.
C14_Witness ==
    /\ DraftMeetsActive
    /\ DraftDays > 0
    /\ errors = {<<"purpose", "Purpose must be at least 10 characters">>}
    /\ toast = "none"
    /\ storage = <<JSONStringify(reservations)>>

MarkedToast == "Room marked for cleaning"

\* No reservation of the collection has this id.
Absent(id) == \A i \in Indices : reservations[i].id # id

\* C15: cancelReservation or markForCleaning called with an id that no
\* reservation of the collection has does not report success, and leaves the
\* collection and the persisted store as they were.
C15_AbsentIdNotFound ==
    [][\A id \in Ids :
         Absent(id) =>
            /\ cancelReservation(id)
                 => (/\ toast' # CancelledToast
                     /\ reservations' = reservations
                     /\ storage' = storage)
            /\ markForCleaning(id)
                 => (/\ toast' # MarkedToast
                     /\ reservations' = reservations
                     /\ storage' = storage)]_vars

\* C16: markForCleaning(id) sets needsCleaning on the reservation with that
\* id whatever its status, changes no other field of it and no other record;
\* applied to a reservation already marked it leaves the collection as it is.
C16_MarkEffect ==
    [][\A id \in Ids :
         markForCleaning(id) =>
           /\ Len(reservations') = Len(reservations)
           /\ \A i \in Indices :
                IF reservations[i].id = id
                THEN /\ reservations'[i].needsCleaning = TRUE
                     /\ reservations'[i].status = reservations[i].status
                     /\ reservations'[i] =
                          [reservations[i] EXCEPT !.needsCleaning = TRUE]
                     /\ reservations[i].needsCleaning
                          => reservations' = reservations
                ELSE reservations'[i] = reservations[i]]_vars

\* C16 witness: after a cleaning mark, an active reservation is marked while
\* a cancelled one next to it is marked as well.
C16_Witness ==
    /\ toast = MarkedToast
    /\ \E i \in Indices : \E j \in Indices :
         /\ reservations[i].status = "active"
         /\ reservations[i].needsCleaning = TRUE
         /\ reservations[j].status = "cancelled"
         /\ reservations[j].needsCleaning = TRUE

\* The calendar days of a list of Dates.
DaysOf(dates) == {CalendarDay(dates[k]) : k \in 1..Len(dates)}

\* The active reservations of the facility identity (ty, nu).
ActiveOf(ty, nu) ==
    {i \in Indices : reservations[i].status = "active"
                     /\ OfFacility(reservations[i], ty, nu)}

\* C17: a calendar day is among the dates getBookedDatesForFacility returns
\* for a facility exactly when it lies in the inclusive range [checkIn,
\* checkOut] of an active reservation of that facility; a single reservation
\* [D, D+2] yields exactly the three dates D, D+1, D+2.
C17_BookedDatesComplete ==
    \A ty \in SelectableTypes : \A nu \in UnitsOf(ty) \cup {Undefined} :
        LET booked == getBookedDatesForFacility(reservations, ty, nu) IN
        /\ \A day \in 0..(MaxDay + 1) :
             day \in DaysOf(booked)
               <=> \E i \in ActiveOf(ty, nu) :
                      /\ IsoDay(reservations[i].checkIn) <= day
                      /\ day <= IsoDay(reservations[i].checkOut)
        /\ DaysOf(booked) \subseteq 0..(MaxDay + 1)
        /\ \A i \in ActiveOf(ty, nu) :
             (ActiveOf(ty, nu) = {i} /\ StayDays(reservations[i]) = 2)
               => /\ Len(booked) = 3
                  /\ \A k \in 1..3 :
                       CalendarDay(booked[k]) = IsoDay(reservations[i].checkIn) + k - 1

\* C17 witness: the selected facility has a single active reservation of two
\* nights and the calendar holds its three days.
C17_Witness ==
    /\ selectedFacility # <<>>
    /\ \E i \in Indices :
         /\ ActiveOf(selectedFacility[1].type, selectedFacility[1].number) = {i}
         /\ StayDays(reservations[i]) = 2
         /\ Len(bookedDates) = 3

\* C18: no step removes a reservation: the collection keeps every record at
\* its place (so the set of ids only grows), and of an existing record only
\* status and needsCleaning ever change.
C18_NeverDeleted ==
    [][/\ Len(reservations') >= Len(reservations)
       /\ {reservations[i].id : i \in Indices}
            \subseteq {reservations'[i].id : i \in 1..Len(reservations')}
       /\ \A i \in Indices :
            reservations'[i] =
              [reservations[i] EXCEPT
                 !.status = reservations'[i].status,
                 !.needsCleaning = reservations'[i].needsCleaning]]_vars

\* C18 witness: after a creation, a cancellation and a cleaning mark, the
\* cancelled reservation is still in the collection, before a reservation
\* created after it.
C18_Witness ==
    /\ Len(reservations) >= 2
    /\ reservations[1].status = "cancelled"
    /\ reservations[1].needsCleaning
    /\ reservations[2].id > reservations[1].id
    /\ toast = MarkedToast

\* C19: every reservation enters the collection as active; the only change
\* of status a step makes is from active to cancelled; no step produces the
\* status completed, and a cancelled reservation stays cancelled.
C19_StatusLifecycle ==
    [][\A i \in 1..Len(reservations') :
         /\ reservations'[i].status # "completed"
         /\ i > Len(reservations) => reservations'[i].status = "active"
         /\ i <= Len(reservations) =>
              \/ reservations'[i].status = reservations[i].status
              \/ /\ reservations[i].status = "active"
                 /\ reservations'[i].status = "cancelled"]_vars

\* C19 witness: a cancelled reservation has been cancelled a second time
\* (its flag is down again) and is still cancelled, next to an active one.
C19_Witness ==
    /\ toast = CancelledToast
    /\ \E i \in Indices : \E j \in Indices :
         /\ reservations[i].status = "cancelled"
         /\ ~reservations[i].needsCleaning
         /\ reservations[j].status = "active"

\* The store holds the in-memory collection (or nothing was stored and the
\* collection is empty).
StoreInSync ==
    IF storage = <<>> THEN reservations = <<>>
    ELSE PersistedAs(storage, reservations)

\* Two records agree on every field either of them has.
SameFields(r1, r2) ==
    \A k \in DOMAIN r1 \cup DOMAIN r2 : Get(r1, k) = Get(r2, k)

\* C20: after every step the collection written under psp_reservations is the
\* in-memory collection, so a fresh mount loads records equal in all fields
\* to those in memory before it; with no entry stored it loads the empty
\* collection.
C20_PersistenceRoundTrip ==
    [][/\ StoreInSync'
       /\ Mount =>
            IF storage = <<>> THEN reservations' = <<>>
            ELSE /\ Len(reservations') = Len(reservations)
                 /\ \A i \in Indices :
                      SameFields(reservations'[i], reservations[i])]_vars

\* C20 witness: a reservation without a unit was created in this run and the
\* page was then reloaded: the record came back from the store, without the
\* key the serialisation dropped.
C20_Witness ==
    /\ toast = "none"
    /\ Len(reservations) = 2
    /\ reservations[2].id = now
    /\ "facilityNumber" \notin DOMAIN reservations[2]
    /\ UnitOf(reservations[2]) = Undefined
    /\ StoreInSync

\* C21: every reservation of the collection whose type is dorm or classroom
\* names a unit, whatever the form interactions that led to its creation.
C21_NumberedTypesCarryUnit ==
    \A i \in Indices :
        reservations[i].facilityType \in {"dorm", "classroom"}
          => UnitOf(reservations[i]) \notin {Undefined, ""}

\* The records a step changed.
ChangedBy == {i \in Indices : i <= Len(reservations') /\ reservations'[i] # reservations[i]}

C23_SingleSessionAtomic ==
    [][(reservations' # reservations \/ storage' # storage) =>
         /\ PersistedAs(storage', reservations')
         /\ Len(reservations') \in {Len(reservations), Len(reservations) + 1}
         /\ Cardinality(ChangedBy) <= 1
         /\ Len(reservations') = Len(reservations) + 1 => ChangedBy = {}
         /\ \A i \in 1..Len(reservations') : \A j \in 1..Len(reservations') :
              (/\ i # j
               /\ reservations'[i].status = "active"
               /\ reservations'[j].status = "active"
               /\ SameIdentity(reservations'[i], reservations'[j]))
              => ~RecordsOverlap(reservations'[i], reservations'[j])]_vars

\* C23 witness: a creation, a cancellation of it and a second creation have
\* followed one another, and both the collection and the store hold the
\* cancelled record and the new one on the same facility.
C23_Witness ==
    /\ toast = CreatedToast
    /\ Len(reservations) = 2
    /\ reservations[1].status = "cancelled"
    /\ reservations[1].needsCleaning
    /\ reservations[2].status = "active"
    /\ SameIdentity(reservations[1], reservations[2])
    /\ storage = <<JSONStringify(reservations)>>

\* The collection the store holds.
Stored == IF storage = <<>> THEN <<>> ELSE JSONParse(storage[1])

\* Two active records of one facility identity with overlapping ranges.
DoubleBooked(r1, r2) ==
    /\ r1.status = "active"
    /\ r2.status = "active"
    /\ SameIdentity(r1, r2)
    /\ RecordsOverlap(r1, r2)

\* C24: with two tabs on one store the conflict check of a submission runs on
\* the submitting tab's own snapshot only: every creation adds a record that
\* double-books nothing in that tab's collection and replaces the store with
\* that tab's collection, whatever the store held; so both tabs can pass the
\* check and write overlapping active reservations of one facility identity
\* (the witness).
C24_CheckAgainstOwnSnapshot ==
    [][now' # now =>
         /\ reservations' = Append(reservations, reservations'[Len(reservations')])
         /\ \A i \in Indices :
              ~DoubleBooked(reservations[i], reservations'[Len(reservations')])
         /\ storage' = <<JSONStringify(reservations')>>]_vars

\* C24 witness: the front tab has just created an active reservation that
\* overlaps, on the same facility identity, an active reservation the other
\* tab created and still holds; each tab holds only its own record.
C24_Witness ==
    /\ toast = CreatedToast
    /\ Len(others) = 1
    /\ others[1].toast = CreatedToast
    /\ Len(reservations) = 1
    /\ Len(others[1].reservations) = 1
    /\ reservations[1].id # others[1].reservations[1].id
    /\ DoubleBooked(reservations[1], others[1].reservations[1])

\* C27: with several tabs on one store the stored collection never holds two
\* overlapping active reservations of one facility identity, and every write
\* replaces the stored collection with the writing tab's in-memory collection.
C27_StoreNeverDoubleBooked ==
    [][/\ \A i \in 1..Len(Stored') : \A j \in 1..Len(Stored') :
            i # j => ~DoubleBooked(Stored'[i], Stored'[j])
       /\ storage' # storage => PersistedAs(storage', reservations')]_vars

\* C27 witness: after the other tab wrote an overlapping reservation from its
\* stale snapshot, the front tab wrote again (a cleaning mark on its own
\* reservation): the store holds the front tab's record only, and the other
\* tab's overlapping active reservation is no longer stored.
C27_Witness ==
    /\ toast = MarkedToast
    /\ Len(others) = 1
    /\ Len(reservations) = 1
    /\ reservations[1].needsCleaning
    /\ PersistedAs(storage, reservations)
    /\ Len(others[1].reservations) = 1
    /\ DoubleBooked(reservations[1], others[1].reservations[1])
    /\ \A i \in 1..Len(Stored) : Stored[i].id # others[1].reservations[1].id

\* The displayed availability state as a function of the current data.
DerivedAvailability ==
    /\ bookedDates =
         IF selectedFacility = <<>> THEN <<>>
         ELSE getBookedDatesForFacility(reservations, selectedFacility[1].type,
                                        selectedFacility[1].number)
    /\ hasConflict =
         IF checkInDate = NoDate \/ checkOutDate = NoDate \/ selectedFacility = <<>>
         THEN FALSE
         ELSE checkForConflicts(reservations, selectedFacility[1].type,
                                selectedFacility[1].number, checkInDate, checkOutDate)

\* A step that is no creation, cancellation or cleaning mark.
RecomputeOnly ==
    /\ now' = now
    /\ \A id \in Ids : ~cancelReservation(id) /\ ~markForCleaning(id)

\* C25: bookedDates and hasConflict are a function of the current data:
\* bookedDates is getBookedDatesForFacility of the selected facility (empty
\* when none is selected) and hasConflict is checkForConflicts of the selected
\* facility and dates (false when a date or the facility is unset), after
\* every creation, cancellation, cleaning mark, facility change and date pick;
\* and a step that only recomputes them leaves the collection and the store
\* as they were.
C25_AvailabilityDerived ==
    /\ []DerivedAvailability
    /\ [][RecomputeOnly => UNCHANGED <<reservations, storage>>]_vars

\* C25 witness: a reservation was created and the same facility selected
\* again with dates around it: the booked days are shown and the conflict
\* flag is raised.
C25_Witness ==
    /\ Len(reservations) = 1
    /\ reservations[1].status = "active"
    /\ selectedFacility # <<>>
    /\ OfFacility(reservations[1], selectedFacility[1].type, selectedFacility[1].number)
    /\ Len(bookedDates) = 2
    /\ checkInDate # NoDate
    /\ checkOutDate # NoDate
    /\ hasConflict

\* C26: for every facility identity and every range with checkIn <= checkOut,
\* checkForConflicts is true exactly when at least one calendar day of
\* [checkIn, checkOut] is among the dates getBookedDatesForFacility returns
\* for that identity.
C26_ConflictIffBookedDay ==
    \A ty \in SelectableTypes : \A nu \in UnitsOf(ty) \cup {Undefined} :
      \A ci \in 0..(MaxDay + 1) : \A co \in ci..(MaxDay + 1) :
        checkForConflicts(reservations, ty, nu, LocalMidnight(ci), LocalMidnight(co))
          <=> \E day \in ci..co :
                 day \in DaysOf(getBookedDatesForFacility(reservations, ty, nu))

\* C26 witness: a submitted range was rejected as conflicting, and the dates
\* booked for its facility hold one of its days but not all of them.
C26_Witness ==
    /\ toast = ConflictToast
    /\ CandidateOrdered
    /\ \E day \in CalendarDay(form.checkIn)..CalendarDay(form.checkOut) :
         day \in DaysOf(bookedDates)
    /\ \E day \in CalendarDay(form.checkIn)..CalendarDay(form.checkOut) :
         day \notin DaysOf(bookedDates)

\* C28: after any sequence of schedule, edit-schedule, saveParticipants and
\* removeParticipant the roster of a scheduled class never holds more
\* participants than its maxAttendees.
C28_RosterWithinCapacity ==
    \A i \in ScheduleIndices :
        Len(scheduledClasses[i].participants) <= scheduledClasses[i].maxAttendees

\* The roles of a stored collection that carry the id of role.
SameRole(list, role) == {k \in 1..Len(list) : list[k].id = role.id}

\* C29: editing a role is transactional: permissions change only through
\* handleCreateRole. A step that is not handleCreateRole (opening a role for
\* edit, toggling permissions, cancelling) leaves the permission matrix of
\* every saved role as it was in memory, and what a later saveRoles writes
\* for a role is the matrix the store already held for it.
C29_EditTransactional ==
    [][~handleCreateRole =>
         /\ \A i \in 1..Len(roles) : \A j \in SameRole(roles', roles[i]) :
              Matrix(roles'[j].permissions, heap') = Matrix(roles[i].permissions, heap)
         /\ adminRoles' # adminRoles =>
              \A i \in 1..Len(adminRoles[1]) :
                \A j \in SameRole(adminRoles'[1], adminRoles[1][i]) :
                  adminRoles'[1][j].permissions = adminRoles[1][i].permissions]_vars

\* Every checkbox of the role dialog: a cell (module, section) and a permission.
Checkboxes ==
    {<<moduleId, section, permission>> :
       moduleId \in DOMAIN APPLICATION_MODULES,
       section \in UNION {APPLICATION_MODULES[m] : m \in DOMAIN APPLICATION_MODULES},
       permission \in CRUD_PERMISSIONS}
CheckboxesShown == {box \in Checkboxes : box[2] \in APPLICATION_MODULES[box[1]]}

\* The checkboxes a permissions state shows checked (lines 675-677).
Checked(permissions, h) ==
    {box \in CheckboxesShown :
       /\ box[1] \in DOMAIN permissions
       /\ box[2] \in DOMAIN h[permissions[box[1]]]
       /\ Includes(h[permissions[box[1]]][box[2]], box[3])}

\* C30: togglePermission(module, section, permission) changes the membership
\* of exactly that permission in exactly that (module, section) cell, and
\* applied twice it restores the original membership.
C30_ToggleInvolution ==
    \A box \in CheckboxesShown :
        LET before == Checked(rolePermissions, heap)
            once == Toggled(rolePermissions, heap, NewRef, box[1], box[2], box[3])
            twice == Toggled(once.permissions, once.heap, NewRef, box[1], box[2], box[3])
        IN  /\ Checked(once.permissions, once.heap) \ {box} = before \ {box}
            /\ box \in Checked(once.permissions, once.heap) <=> box \notin before
            /\ Checked(twice.permissions, twice.heap) = before

\* C30 witness: in the open dialog one cell of a module was checked and
\* unchecked again, and another cell of the same module holds two permissions
\* in the order they were clicked.
C30_Witness ==
    /\ isRoleDialogOpen
    /\ "track-application" \in DOMAIN rolePermissions
    /\ LET object == heap[rolePermissions["track-application"]]
       IN  /\ DOMAIN object = {"View Status", "Download Documents"}
           /\ object["View Status"] = <<>>
           /\ object["Download Documents"] = <<"Read", "Create">>

====
